---- MODULE Spec2Model ----
(***************************************************************************)
(* Authentication and session-token lifecycle of pre-lease-server:         *)
(* the signup, login, logout, refreshAccessToken and switchRole handlers   *)
(* of src/controllers/user.js running as concurrent requests against the   *)
(* users, user_roles and tokens tables.  Every await on the database is    *)
(* one step of a request; steps of different requests interleave freely.   *)
(* The OTP gateway of src/services/otpService.js, with its cached provider *)
(* credential, has a specification of its own (SpecOtp); the handlers see  *)
(* the gateway through the answer of verifyOtp only.                       *)
(***************************************************************************)
EXTENDS Integers, Sequences, FiniteSets, TLC

\* ------------------------------------------------------------------ bounds
NumReq == 2         \* requests in flight at once
MaxUsers == 2       \* rows of the users table
MaxTokens == 3      \* rows of the tokens table
MaxRoleRows == 3    \* rows of the user_roles table
MaxMints == 3       \* distinct refresh-token strings minted
MaxTime == 2        \* clock ticks
RefreshTTL == 2     \* process.env.REFRESH_TOKEN_EXPIRY, in clock ticks
MaxOtpTime == 6     \* clock ticks of the gateway, five minutes each
MaxNotes == 3       \* notes of one PropertyInvestorNote record
MaxConns == 2       \* client connections open when a signal arrives
MaxSignals == 3     \* SIGTERM / SIGINT deliveries to one process
MaxApiLogs == 1     \* ApiLog documents written
CacheMargin == 1    \* 5 * 60 * 1000 ms, in gateway ticks
CacheLifetime == 4  \* 20 * 60 * 1000 ms, in gateway ticks

Req == 1..NumReq

\* ------------------------------------------------------------- null values
NoRole == ""
NoRera == ""
NoDevice == ""
NoTime == -1
NoUid == 0
NoCredential == 0
NoCode == 0
NoVerificationId == ""
NoStatus == ""

\* ------------------------------------------------------------ input values
M1 == <<9, 8, 7, 6, 5, 4, 3, 2, 1, 0>>
M2 == <<6, 0, 0, 0, 0, 0, 0, 0, 0, 1>>
MShort == <<9, 8, 7>>
NoMobile == <<>>
E1 == [local |-> "a", domain |-> "x.com"]
E2 == [local |-> "b", domain |-> "x.com"]
EBad == [local |-> "a", domain |-> ""]
NoEmail == [local |-> "", domain |-> ""]

\* utils/validators: "Must be 10 digits starting with 6-9"
isValidPhone(m) ==
    /\ Len(m) = 10
    /\ \A i \in 1..Len(m) : m[i] \in 0..9
    /\ m[1] \in 6..9

isValidEmail(e) == e.local # "" /\ e.domain # ""

\* validateRequiredFields(requiredFields, req.body): the names of the missing
\* fields; `named` stands for firstName, lastName, otp and verificationId.
validateRequiredFields(mobile, email, named) ==
    (IF mobile = NoMobile THEN {"mobileNumber"} ELSE {})
    \cup (IF email = NoEmail THEN {"email"} ELSE {})
    \cup (IF named THEN {} ELSE {"otp"})

\* -------------------------------------------------------------- roles table
validClientRoles == {"Owner", "Broker", "Investor"}

RoleTable ==
    { [roleName |-> "Owner", roleType |-> "client", isActive |-> TRUE],
      [roleName |-> "Broker", roleType |-> "client", isActive |-> TRUE],
      [roleName |-> "Investor", roleType |-> "client", isActive |-> TRUE],
      [roleName |-> "Admin", roleType |-> "internal", isActive |-> TRUE] }

\* Role.findOne({ where: { roleName, roleType: "client", isActive: true } })
RoleFindOne(name) ==
    { row \in RoleTable :
        row.roleName = name /\ row.roleType = "client" /\ row.isActive }

\* ------------------------------------------------------------------- tokens
\* A signed token string, by its claims.  jti tells two strings apart.
RefreshJwt(sub, role, jti, t) ==
    [sub |-> sub, role |-> role, cls |-> "refresh", jti |-> jti,
     exp |-> t + RefreshTTL, sig |-> "ok"]

AccessJwt(sub, role) == [sub |-> sub, role |-> role, cls |-> "access"]

NoAccess == [sub |-> NoUid, role |-> NoRole, cls |-> "none"]

\* No Authorization header, or one that is not "Bearer <token>".
NoToken ==
    [sub |-> NoUid, role |-> NoRole, cls |-> "none", jti |-> 0, exp |-> 0,
     sig |-> "none"]

\* A string that was never signed with the process secret.
Forged ==
    [sub |-> 1, role |-> "Broker", cls |-> "refresh", jti |-> 0,
     exp |-> MaxTime + RefreshTTL + 1, sig |-> "bad"]

\* jwt.verify: signature, token class, expiry.
JwtVerify(tok, t) == tok.sig = "ok" /\ tok.cls = "refresh" /\ tok.exp > t

\* Token.calculateExpiryDate(process.env.REFRESH_TOKEN_EXPIRY)
calculateExpiryDate(t) == t + RefreshTTL

\* -------------------------------------------------------------------- state
VARIABLES
    users,      \* users table: sequence of rows
    userRoles,  \* user_roles table: sequence of [userId, roleName]
    tokens,     \* tokens table: sequence of rows, tokenId = index
    now,        \* the clock
    req,        \* the requests in flight: local state of each
    issued,     \* refresh-token strings returned to clients
    sessions,   \* access tokens returned to clients
    cachedToken,    \* otpService: the provider credential held in memory
    tokenExpiresAt, \* otpService: when the cached credential lapses
    configured,     \* otpService: CUSTOMER_ID and PASSWORD are both set
    otpCall,        \* otpService: the call being served and its outcome
    noteRecord,     \* a PropertyInvestorNote instance
    noteResult,     \* what the last call on the instance returned
    proc,           \* the server process: listener, connections, exit
    call,           \* the handler invocation being served, for its logging
    apiLogs         \* the ApiLog collection

vars == <<users, userRoles, tokens, now, req, issued, sessions,
          cachedToken, tokenExpiresAt, configured, otpCall,
          noteRecord, noteResult, proc, call, apiLogs>>

otpVars == <<cachedToken, tokenExpiresAt, configured, otpCall>>

sideVars == <<noteRecord, noteResult, proc>>

logVars == <<call, apiLogs>>

db == <<users, userRoles, tokens>>

EmptyTx == [users |-> <<>>, roles |-> <<>>, tokens |-> <<>>]

Idle ==
    [op |-> "idle", pc |-> "idle",
     mobile |-> NoMobile, email |-> NoEmail, rera |-> NoRera,
     roleName |-> NoRole, device |-> NoDevice, bearer |-> NoToken,
     uid |-> NoUid, role |-> NoRole, roles |-> <<>>, rt |-> NoToken,
     cnt |-> 0, tokenId |-> 0, tx |-> EmptyTx,
     status |-> 0, msg |-> "", access |-> NoAccess, refresh |-> NoToken]

\* The response of a finished request: everything local is dropped except
\* what the request was and what it answered.
Done(r, status, msg, access, refresh) ==
    [Idle EXCEPT !.op = req[r].op, !.pc = "done", !.status = status,
                 !.msg = msg, !.access = access, !.refresh = refresh,
                 !.mobile = req[r].mobile, !.device = req[r].device,
                 !.uid = req[r].uid, !.bearer = req[r].bearer]

\* A PropertyInvestorNote row as created: notes [], totalNotesCount 0.
NewNoteRecord == [notes |-> <<>>, totalNotesCount |-> 0]

\* null, as returned by getNoteById and updateNote.
NoNote ==
    [noteId |-> 0, noteText |-> "", createdBy |-> "", createdAt |-> NoTime,
     updatedAt |-> NoTime]

\* No call has been made on the instance.
NoNoteCall == [fn |-> "none", noteId |-> 0, ret |-> NoNote]

\* undefined (a field that was not sent) and null, as they are logged.
Absent == ""

Null == "null"

\* No handler is being served.
NoInvocation ==
    [op |-> "none", pc |-> "idle",
     rq |-> [mobileNumber |-> Absent, email |-> Absent, otp |-> Absent,
             verificationId |-> Absent, deviceId |-> Absent,
             authorization |-> Absent, cookie |-> Absent],
     body |-> [threw |-> FALSE, statusCode |-> 0],
     error |-> [threw |-> FALSE, statusCode |-> 0],
     logCalls |-> 0, logStatus |-> 0, logWritten |-> FALSE,
     status |-> 0, sent |-> "none"]

\* The process after app.listen: the listener accepts connections, both
\* database connections are open, no signal has been received. cb[i] is
\* the position of the callback that the i-th signal gave to server.close.
Listening ==
    [server |-> "listening", conns |-> 0, signals |-> 0, last |-> "none",
     timers |-> 0, cb |-> [i \in 1..MaxSignals |-> "none"],
     sql |-> "open", mongo |-> "open", exit |-> "running"]

\* No call is being served by the gateway.
NoCall ==
    [fn |-> "none", mobile |-> NoMobile, reached |-> FALSE,
     authCalled |-> FALSE, authOk |-> FALSE, token |-> NoCredential,
     providerCalled |-> FALSE, http |-> 0, responseCode |-> NoCode,
     verificationId |-> NoVerificationId, verificationStatus |-> NoStatus,
     status |-> 0, msg |-> ""]

Init ==
    /\ users = <<>>
    /\ userRoles = <<>>
    /\ tokens = <<>>
    /\ now = 0
    /\ req = [r \in Req |-> Idle]
    /\ issued = {}
    /\ sessions = {}
    /\ cachedToken = NoCredential
    /\ tokenExpiresAt = NoTime
    /\ configured = TRUE
    /\ otpCall = NoCall
    /\ noteRecord = NewNoteRecord
    /\ noteResult = NoNoteCall
    /\ proc = Listening
    /\ call = NoInvocation
    /\ apiLogs = <<>>

\* A new request takes the lowest idle slot.
CanStart(r) ==
    /\ req[r].op = "idle"
    /\ \A q \in Req : q < r => req[q].op # "idle"

Range(s) == { s[i] : i \in 1..Len(s) }

\* -------------------------------------------------------------- otpService
\* The provider's answers to validateOtp.
OtpResponses ==
    { [responseCode |-> 200, verificationStatus |-> "VERIFICATION_COMPLETED"],
      [responseCode |-> 702, verificationStatus |-> ""] }

\* A validateOtp mapping that looks at data.responseCode alone.
verifyOtpCodeOnly(resp) ==
    IF resp.responseCode = 702
    THEN [status |-> 400, msg |-> "Invalid OTP entered"]
    ELSE IF resp.responseCode = 705
    THEN [status |-> 400, msg |-> "OTP has expired. Please request a new one."]
    ELSE IF resp.responseCode = 800
    THEN [status |-> 429,
          msg |-> "Maximum verification attempts reached. Please request a new OTP."]
    ELSE IF resp.responseCode # 200
    THEN [status |-> 400, msg |-> "OTP verification failed. Please try again."]
    ELSE [status |-> 0, msg |-> ""]

\* otpService.verifyOtp: status 0 when verified, else the status thrown.
verifyOtp(resp) ==
    IF resp.responseCode = 702
    THEN [status |-> 400, msg |-> "Invalid OTP entered"]
    ELSE IF resp.responseCode = 705
    THEN [status |-> 400, msg |-> "OTP has expired. Please request a new one."]
    ELSE IF resp.responseCode = 800
    THEN [status |-> 429,
          msg |-> "Maximum verification attempts reached. Please request a new OTP."]
    ELSE IF \/ resp.responseCode # 200
            \/ resp.verificationStatus # "VERIFICATION_COMPLETED"
    THEN [status |-> 400, msg |-> "OTP verification failed. Please try again."]
    ELSE [status |-> 0, msg |-> ""]

\* Outcomes of one statement sent to the database.
DbOutcomes == {"ok", "error"}

\* ------------------------------------------------------------------ helpers
RECURSIVE SelectSeq2(_, _)
\* The subsequence of s at the indices in idx, in order.
SelectSeq2(s, idx) ==
    IF s = <<>> THEN <<>>
    ELSE LET rest == SelectSeq2(SubSeq(s, 1, Len(s) - 1), idx)
         IN  IF Len(s) \in idx THEN Append(rest, s[Len(s)]) ELSE rest

Min(S) == CHOOSE x \in S : \A y \in S : x <= y

\* Rows written by transactions that are still open.
OpenTxUsers == UNION { Range(req[q].tx.users) : q \in Req }

UsedUids == { u.userId : u \in Range(users) \cup OpenTxUsers }

FreeUids == (1..MaxUsers) \ UsedUids

UsedJtis ==
    { t.jti : t \in issued }
    \cup { row.refreshToken.jti : row \in Range(tokens) }
    \cup { req[q].rt.jti : q \in Req }

FreeJtis == (1..MaxMints) \ UsedJtis

\* A refresh token that carries no role claim.
generateRefreshTokenNoRole(sub, role) ==
    RefreshJwt(sub, NoRole, Min(FreeJtis), now)

\* Token.generateRefreshToken(userId, roleName)
generateRefreshToken(sub, role) == RefreshJwt(sub, role, Min(FreeJtis), now)

\* An access token that carries no role claim.
generateAccessTokenNoRole(sub, role) == AccessJwt(sub, NoRole)

\* Token.generateAccessToken(userId, roleName)
generateAccessToken(sub, role) == AccessJwt(sub, role)

\* The active role names of a user, in the order the assignments were made
\* (include: Role through UserRole, where: { isActive: true }).
RolesOf(uid) ==
    LET idx == { i \in 1..Len(userRoles) :
                   /\ userRoles[i].userId = uid
                   /\ \E row \in RoleTable :
                        row.roleName = userRoles[i].roleName /\ row.isActive }
        rows == SelectSeq2(userRoles, idx)
    IN  [i \in 1..Len(rows) |-> rows[i].roleName]

\* A users table whose only unique index is the one on email.
UserUniqueViolationEmailOnly(row, committed) ==
    \E u \in Range(committed) : u.email = row.email

\* The unique indexes of the users table.
UserUniqueViolation(row, committed) ==
    \E u \in Range(committed) :
        \/ u.mobileNumber = row.mobileNumber
        \/ u.email = row.email
        \/ (row.reraNumber # NoRera /\ u.reraNumber = row.reraNumber)

\* ------------------------------------------------------------------- signup
\* Request bodies: many identities, for the registration claims ...
SignupInputs ==
    [mobile : {M1, M2, MShort}, email : {E1, E2, EBad}, rera : {NoRera, "R1"},
     roleName : {NoRole, "Admin"}, device : {"d1"}, named : BOOLEAN]

\* ... and one identity, for the session claims.
SignupOne ==
    [mobile : {M1}, email : {E1, EBad}, rera : {NoRera},
     roleName : {NoRole}, device : {"d1"}, named : {TRUE}]

\* A lookup that leaves { mobileNumber } out of whereConditions.
signupExistingNoMobile(rq) ==
    { u \in Range(users) :
        \/ u.email = rq.email
        \/ (rq.rera # NoRera /\ u.reraNumber = rq.rera) }

\* User.findOne({ where: { [Op.or]: whereConditions } }): the rows that match.
signupExisting(rq) ==
    { u \in Range(users) :
        \/ u.mobileNumber = rq.mobile
        \/ u.email = rq.email
        \/ (rq.rera # NoRera /\ u.reraNumber = rq.rera) }

\* The conflict thrown for the row findOne returned ("" when none is thrown).
signupConflict(e, rq) ==
    IF e.email = rq.email THEN "Email already exists"
    ELSE IF e.mobileNumber = rq.mobile THEN "Mobile number already exists"
    ELSE IF rq.rera # NoRera /\ e.reraNumber = rq.rera
    THEN "Rera number already exists"
    ELSE ""

\* Validation of the body, then otpService.verifyOtp.
signup_verifyOtp(r, Inputs) ==
    /\ CanStart(r)
    /\ \E in \in Inputs, resp \in OtpResponses :
        LET rq == [Idle EXCEPT !.op = "signup", !.mobile = in.mobile,
                               !.email = in.email, !.rera = in.rera,
                               !.roleName = in.roleName, !.device = in.device]
            fail(status, msg) ==
                [Idle EXCEPT !.op = "signup", !.pc = "done",
                             !.status = status, !.msg = msg]
            otp == verifyOtp(resp)
        IN  req' = [req EXCEPT ![r] =
                IF validateRequiredFields(in.mobile, in.email, in.named) # {}
                THEN fail(400, "Missing required fields")
                ELSE IF ~isValidEmail(in.email)
                THEN fail(400, "Invalid email format")
                ELSE IF ~isValidPhone(in.mobile)
                THEN fail(400, "Invalid mobile number")
                ELSE IF otp.status # 0
                THEN fail(otp.status, otp.msg)
                ELSE [rq EXCEPT !.pc = "findExisting"]]
    /\ UNCHANGED <<users, userRoles, tokens, now, issued, sessions>>
    /\ UNCHANGED otpVars
    /\ UNCHANGED sideVars
    /\ UNCHANGED logVars

\* A role resolution that takes "Broker" for every name it does not find.
signup_findExistingFallsBack(r) ==
    /\ req[r].op = "signup" /\ req[r].pc = "findExisting"
    /\ LET rq == req[r]
           found == signupExisting(rq)
           wanted == IF RoleFindOne(rq.roleName) # {} THEN rq.roleName
                     ELSE "Broker"
       IN  \/ /\ found # {}
              /\ \E e \in found :
                    /\ signupConflict(e, rq) # ""
                    /\ req' = [req EXCEPT ![r] =
                                 Done(r, 409, signupConflict(e, rq), NoAccess, NoToken)]
           \/ /\ found = {}
              /\ req' = [req EXCEPT ![r] =
                    [rq EXCEPT !.pc = "UserCreate", !.role = wanted]]
    /\ UNCHANGED <<users, userRoles, tokens, now, issued, sessions>>
    /\ UNCHANGED otpVars
    /\ UNCHANGED sideVars
    /\ UNCHANGED logVars

\* User.findOne for a colliding user, then Role.findOne for the role.
signup_findExisting(r) ==
    /\ req[r].op = "signup" /\ req[r].pc = "findExisting"
    /\ LET rq == req[r]
           found == signupExisting(rq)
           wanted == IF rq.roleName # NoRole THEN rq.roleName ELSE "Broker"
       IN  \/ /\ found # {}
              /\ \E e \in found :
                    /\ signupConflict(e, rq) # ""
                    /\ req' = [req EXCEPT ![r] =
                                 Done(r, 409, signupConflict(e, rq), NoAccess, NoToken)]
           \/ /\ found = {}
              /\ req' = [req EXCEPT ![r] =
                    IF RoleFindOne(wanted) = {}
                    THEN Done(r, 400, "Invalid role", NoAccess, NoToken)
                    ELSE [rq EXCEPT !.pc = "UserCreate", !.role = wanted]]
    /\ UNCHANGED <<users, userRoles, tokens, now, issued, sessions>>
    /\ UNCHANGED otpVars
    /\ UNCHANGED sideVars
    /\ UNCHANGED logVars

\* User.create without { transaction: t }: the row is written at once.
signup_UserCreateNoTx(r) ==
    /\ req[r].op = "signup" /\ req[r].pc = "UserCreate"
    /\ FreeUids # {}
    /\ Len(users) < MaxUsers
    /\ LET rq == req[r]
           row == [userId |-> Min(FreeUids), mobileNumber |-> rq.mobile,
                   email |-> rq.email, reraNumber |-> rq.rera,
                   userType |-> "client", isActive |-> TRUE,
                   lastLoginAt |-> NoTime]
       IN  \E out \in DbOutcomes :
             IF out = "error" \/ UserUniqueViolation(row, users)
             THEN /\ req' = [req EXCEPT ![r] =
                        Done(r, 500, "Internal error", NoAccess, NoToken)]
                  /\ UNCHANGED users
             ELSE /\ users' = Append(users, row)
                  /\ req' = [req EXCEPT ![r] =
                        [rq EXCEPT !.pc = "UserRoleCreate", !.uid = row.userId]]
    /\ UNCHANGED <<userRoles, tokens, now, issued, sessions>>
    /\ UNCHANGED otpVars
    /\ UNCHANGED sideVars
    /\ UNCHANGED logVars

\* sequelize.transaction(async (t) => { User.create(..., { transaction: t })
signup_UserCreate(r) ==
    /\ req[r].op = "signup" /\ req[r].pc = "UserCreate"
    /\ FreeUids # {}
    /\ LET rq == req[r]
           row == [userId |-> Min(FreeUids), mobileNumber |-> rq.mobile,
                   email |-> rq.email, reraNumber |-> rq.rera,
                   userType |-> "client", isActive |-> TRUE,
                   lastLoginAt |-> NoTime]
       IN  \E out \in DbOutcomes :
             req' = [req EXCEPT ![r] =
               IF out = "error" \/ UserUniqueViolation(row, users)
               THEN Done(r, 500, "Internal error", NoAccess, NoToken)
               ELSE [rq EXCEPT !.pc = "UserRoleCreate", !.uid = row.userId,
                               !.tx.users = <<row>>]]
    /\ UNCHANGED <<users, userRoles, tokens, now, issued, sessions>>
    /\ UNCHANGED otpVars
    /\ UNCHANGED sideVars
    /\ UNCHANGED logVars

\* UserRole.create(..., { transaction: t })
signup_UserRoleCreate(r) ==
    /\ req[r].op = "signup" /\ req[r].pc = "UserRoleCreate"
    /\ LET rq == req[r]
           row == [userId |-> rq.uid, roleName |-> rq.role]
       IN  \E out \in DbOutcomes :
             req' = [req EXCEPT ![r] =
               IF out = "error"
               THEN Done(r, 500, "Internal error", NoAccess, NoToken)
               ELSE [rq EXCEPT !.pc = "TokenCreate", !.tx.roles = <<row>>]]
    /\ UNCHANGED <<users, userRoles, tokens, now, issued, sessions>>
    /\ UNCHANGED otpVars
    /\ UNCHANGED sideVars
    /\ UNCHANGED logVars

\* Token.create(..., { transaction: t }) }), the commit, and the response.
signup_TokenCreate(r) ==
    /\ req[r].op = "signup" /\ req[r].pc = "TokenCreate"
    /\ FreeJtis # {}
    /\ Len(tokens) < MaxTokens /\ Len(userRoles) < MaxRoleRows
    /\ LET rq == req[r]
           rt == generateRefreshToken(rq.uid, rq.role)
           row == [tokenId |-> Len(tokens) + 1, userId |-> rq.uid,
                   refreshToken |-> rt, expiresAt |-> calculateExpiryDate(now),
                   deviceId |-> rq.device, isActive |-> TRUE,
                   lastUsedAt |-> NoTime]
           at == generateAccessToken(rq.uid, rq.role)
       IN  \E out \in DbOutcomes :
             IF out = "error" \/ UserUniqueViolation(rq.tx.users[1], users)
             THEN /\ req' = [req EXCEPT ![r] =
                        Done(r, 500, "Internal error", NoAccess, NoToken)]
                  /\ UNCHANGED <<users, userRoles, tokens, issued, sessions>>
             ELSE /\ users' = users \o rq.tx.users
                  /\ userRoles' = userRoles \o rq.tx.roles
                  /\ tokens' = Append(tokens, row)
                  /\ issued' = issued \cup {rt}
                  /\ sessions' = sessions \cup {at}
                  /\ req' = [req EXCEPT ![r] =
                        Done(r, 201, "User created successfully", at, rt)]
    /\ UNCHANGED now
    /\ UNCHANGED otpVars
    /\ UNCHANGED sideVars
    /\ UNCHANGED logVars

\* -------------------------------------------------------------------- login
\* Request bodies: two devices ...
LoginInputs ==
    [mobile : {M1, MShort}, roleName : {NoRole},
     device : {"d1", "d2"}, named : {TRUE}]

\* ... a role to be granted ...
LoginRoles ==
    [mobile : {M1}, roleName : {NoRole, "Owner"},
     device : {"d1"}, named : {TRUE}]

\* ... and the plain login.
LoginOne ==
    [mobile : {M1}, roleName : {NoRole}, device : {"d1"}, named : {TRUE}]

\* A lookup without isActive: true in its where clause.
loginExistingAnyStatus(mobile) ==
    { u \in Range(users) :
        u.mobileNumber = mobile /\ Len(RolesOf(u.userId)) > 0 }

\* User.findOne({ where: { mobileNumber, isActive: true },
\*                include: [{ model: Role, where: { isActive: true } }] })
loginExisting(mobile) ==
    { u \in Range(users) :
        u.mobileNumber = mobile /\ u.isActive /\ Len(RolesOf(u.userId)) > 0 }

\* A login that stamps lastLoginAt before it verifies the OTP.
login_verifyOtpWriteFirst(r, Inputs) ==
    /\ CanStart(r)
    /\ \E in \in Inputs, resp \in OtpResponses :
        LET rq == [Idle EXCEPT !.op = "login", !.mobile = in.mobile,
                               !.roleName = in.roleName, !.device = in.device]
            fail(status, msg) ==
                [Idle EXCEPT !.op = "login", !.pc = "done",
                             !.status = status, !.msg = msg]
            otp == verifyOtp(resp)
        IN  /\ users' = [i \in 1..Len(users) |->
                  IF users[i].mobileNumber = in.mobile
                  THEN [users[i] EXCEPT !.lastLoginAt = now]
                  ELSE users[i]]
            /\ req' = [req EXCEPT ![r] =
                  IF ~isValidPhone(in.mobile)
                  THEN fail(400, "Invalid mobile number")
                  ELSE IF otp.status # 0
                  THEN fail(otp.status, otp.msg)
                  ELSE [rq EXCEPT !.pc = "findUser"]]
    /\ UNCHANGED <<userRoles, tokens, now, issued, sessions>>
    /\ UNCHANGED otpVars
    /\ UNCHANGED sideVars
    /\ UNCHANGED logVars

\* Validation of the body, then otpService.verifyOtp.
login_verifyOtp(r, Inputs) ==
    /\ CanStart(r)
    /\ \E in \in Inputs, resp \in OtpResponses :
        LET rq == [Idle EXCEPT !.op = "login", !.mobile = in.mobile,
                               !.roleName = in.roleName, !.device = in.device]
            fail(status, msg) ==
                [Idle EXCEPT !.op = "login", !.pc = "done",
                             !.status = status, !.msg = msg]
            otp == verifyOtp(resp)
        IN  req' = [req EXCEPT ![r] =
                IF validateRequiredFields(in.mobile, E1, in.named) # {}
                THEN fail(400, "Missing required fields")
                ELSE IF ~isValidPhone(in.mobile)
                THEN fail(400, "Invalid mobile number")
                ELSE IF otp.status # 0
                THEN fail(otp.status, otp.msg)
                ELSE [rq EXCEPT !.pc = "findUser"]]
    /\ UNCHANGED <<users, userRoles, tokens, now, issued, sessions>>
    /\ UNCHANGED otpVars
    /\ UNCHANGED sideVars
    /\ UNCHANGED logVars

\* User.findOne, then the choice of the session's role.
login_findUser(r) ==
    /\ req[r].op = "login" /\ req[r].pc = "findUser"
    /\ LET rq == req[r]
           found == loginExisting(rq.mobile)
       IN  \/ /\ found = {}
              /\ req' = [req EXCEPT ![r] =
                    Done(r, 404, "Account does not exist, please sign up first",
                         NoAccess, NoToken)]
           \/ \E e \in found :
                LET roles == RolesOf(e.userId)
                    has == \E i \in 1..Len(roles) : roles[i] = rq.roleName
                    me == [rq EXCEPT !.uid = e.userId, !.roles = roles]
                IN  req' = [req EXCEPT ![r] =
                      IF Len(roles) = 0
                      THEN Done(r, 403, "No active role assigned to this account",
                                NoAccess, NoToken)
                      ELSE IF rq.roleName # NoRole /\ e.userType = "client"
                      THEN IF rq.roleName \notin validClientRoles
                           THEN Done(r, 400, "Invalid role", NoAccess, NoToken)
                           ELSE IF has
                           THEN [me EXCEPT !.pc = "TokenUpdate",
                                           !.role = rq.roleName]
                           ELSE IF RoleFindOne(rq.roleName) = {}
                           THEN Done(r, 400, "Role not found or inactive",
                                     NoAccess, NoToken)
                           ELSE [me EXCEPT !.pc = "UserRoleCreate",
                                           !.role = rq.roleName]
                      ELSE [me EXCEPT !.pc = "TokenUpdate", !.role = roles[1]]]
    /\ UNCHANGED <<users, userRoles, tokens, now, issued, sessions>>
    /\ UNCHANGED otpVars
    /\ UNCHANGED sideVars
    /\ UNCHANGED logVars

\* A login that goes on without recording the role it was asked for.
login_UserRoleCreateSkips(r) ==
    /\ req[r].op = "login" /\ req[r].pc = "UserRoleCreate"
    /\ req' = [req EXCEPT ![r].pc = "TokenUpdate"]
    /\ UNCHANGED <<users, userRoles, tokens, now, issued, sessions>>
    /\ UNCHANGED otpVars
    /\ UNCHANGED sideVars
    /\ UNCHANGED logVars

\* UserRole.create({ userId, roleId, assignedBy: null })
login_UserRoleCreate(r) ==
    /\ req[r].op = "login" /\ req[r].pc = "UserRoleCreate"
    /\ Len(userRoles) < MaxRoleRows
    /\ LET rq == req[r]
       IN  \E out \in DbOutcomes :
             IF out = "error"
             THEN /\ req' = [req EXCEPT ![r] =
                        Done(r, 500, "Internal error", NoAccess, NoToken)]
                  /\ UNCHANGED userRoles
             ELSE /\ userRoles' = Append(userRoles,
                        [userId |-> rq.uid, roleName |-> rq.role])
                  /\ req' = [req EXCEPT ![r].pc = "TokenUpdate"]
    /\ UNCHANGED <<users, tokens, now, issued, sessions>>
    /\ UNCHANGED otpVars
    /\ UNCHANGED sideVars
    /\ UNCHANGED logVars

\* const allRoles = existingUser.roles.map((r) => r.roleName);
\* if (roleName && !allRoles.includes(roleName)) allRoles.push(roleName);
allRoles(rq) ==
    IF /\ rq.roleName # NoRole
       /\ ~ \E i \in 1..Len(rq.roles) : rq.roles[i] = rq.roleName
    THEN Append(rq.roles, rq.roleName)
    ELSE rq.roles

\* A where clause without isActive: every row of the user.
AllTokenIds(uid) ==
    { i \in 1..Len(tokens) : tokens[i].userId = uid }

\* The rows Token.update({...}, { where: { userId, isActive: true } }) matches.
ActiveTokenIds(uid) ==
    { i \in 1..Len(tokens) : tokens[i].userId = uid /\ tokens[i].isActive }

\* Token.generateRefreshToken, then Token.update of the user's active rows.
login_TokenUpdate(r) ==
    /\ req[r].op = "login" /\ req[r].pc = "TokenUpdate"
    /\ FreeJtis # {}
    /\ LET rq == req[r]
           rt == generateRefreshToken(rq.uid, rq.role)
           hit == ActiveTokenIds(rq.uid)
       IN  \E out \in DbOutcomes :
             IF out = "error"
             THEN /\ req' = [req EXCEPT ![r] =
                        Done(r, 500, "Internal error", NoAccess, NoToken)]
                  /\ UNCHANGED tokens
             ELSE /\ tokens' = [i \in 1..Len(tokens) |->
                        IF i \in hit
                        THEN [tokens[i] EXCEPT !.refreshToken = rt,
                                 !.expiresAt = calculateExpiryDate(now),
                                 !.deviceId = rq.device, !.isActive = TRUE,
                                 !.lastUsedAt = now]
                        ELSE tokens[i]]
                  /\ req' = [req EXCEPT ![r].pc = "UserUpdate", ![r].rt = rt,
                                        ![r].cnt = Cardinality(hit)]
    /\ UNCHANGED <<users, userRoles, now, issued, sessions>>
    /\ UNCHANGED otpVars
    /\ UNCHANGED sideVars
    /\ UNCHANGED logVars

\* User.update({ lastLoginAt }, { where: { mobileNumber } }); the response
\* follows at once when Token.update found a row.
login_UserUpdate(r) ==
    /\ req[r].op = "login" /\ req[r].pc = "UserUpdate"
    /\ LET rq == req[r]
           at == generateAccessToken(rq.uid, rq.role)
       IN  \E out \in DbOutcomes :
             IF out = "error"
             THEN /\ req' = [req EXCEPT ![r] =
                        Done(r, 500, "Internal error", NoAccess, NoToken)]
                  /\ UNCHANGED <<users, issued, sessions>>
             ELSE /\ users' = [i \in 1..Len(users) |->
                        IF users[i].mobileNumber = rq.mobile
                        THEN [users[i] EXCEPT !.lastLoginAt = now]
                        ELSE users[i]]
                  /\ IF rq.cnt = 0
                     THEN /\ req' = [req EXCEPT ![r].pc = "TokenCreate"]
                          /\ UNCHANGED <<issued, sessions>>
                     ELSE /\ req' = [req EXCEPT ![r] =
                                [Done(r, 200, "Login successfully", at, rq.rt)
                                   EXCEPT !.roles = allRoles(rq)]]
                          /\ issued' = issued \cup {rq.rt}
                          /\ sessions' = sessions \cup {at}
    /\ UNCHANGED <<userRoles, tokens, now>>
    /\ UNCHANGED otpVars
    /\ UNCHANGED sideVars
    /\ UNCHANGED logVars

\* if (updatedCount === 0) Token.create({...}); then the response.
login_TokenCreate(r) ==
    /\ req[r].op = "login" /\ req[r].pc = "TokenCreate"
    /\ Len(tokens) < MaxTokens
    /\ LET rq == req[r]
           at == generateAccessToken(rq.uid, rq.role)
           row == [tokenId |-> Len(tokens) + 1, userId |-> rq.uid,
                   refreshToken |-> rq.rt,
                   expiresAt |-> calculateExpiryDate(now),
                   deviceId |-> rq.device, isActive |-> TRUE,
                   lastUsedAt |-> NoTime]
       IN  \E out \in DbOutcomes :
             IF out = "error"
             THEN /\ req' = [req EXCEPT ![r] =
                        Done(r, 500, "Internal error", NoAccess, NoToken)]
                  /\ UNCHANGED <<tokens, issued, sessions>>
             ELSE /\ tokens' = Append(tokens, row)
                  /\ req' = [req EXCEPT ![r] =
                        [Done(r, 200, "Login successfully", at, rq.rt)
                           EXCEPT !.roles = allRoles(rq)]]
                  /\ issued' = issued \cup {rq.rt}
                  /\ sessions' = sessions \cup {at}
    /\ UNCHANGED <<users, userRoles, now>>
    /\ UNCHANGED otpVars
    /\ UNCHANGED sideVars
    /\ UNCHANGED logVars

\* ------------------------------------------------------------- Token model
\* What a client can send as "Authorization: Bearer <token>".
BearerInputs == issued \cup {Forged, NoToken}

\* The rows a token string is live in: active and not expired.
LiveTokenIds(tok) ==
    { i \in 1..Len(tokens) :
        /\ tokens[i].refreshToken = tok
        /\ tokens[i].isActive
        /\ tokens[i].expiresAt > now }

\* A verification that stops after jwt.verify.
verifyRefreshTokenJwtOnly(tok) ==
    IF ~JwtVerify(tok, now)
    THEN [valid |-> FALSE, tokenId |-> 0, msg |-> "Invalid or expired refresh token"]
    ELSE [valid |-> TRUE,
          tokenId |-> IF LiveTokenIds(tok) = {} THEN 0 ELSE Min(LiveTokenIds(tok)),
          msg |-> ""]

\* Token.verifyRefreshToken: jwt.verify, then the lookup of a live row.
verifyRefreshToken(tok) ==
    IF ~JwtVerify(tok, now)
    THEN [valid |-> FALSE, tokenId |-> 0, msg |-> "Invalid or expired refresh token"]
    ELSE IF LiveTokenIds(tok) = {}
    THEN [valid |-> FALSE, tokenId |-> 0, msg |-> "Refresh token not found or revoked"]
    ELSE [valid |-> TRUE, tokenId |-> Min(LiveTokenIds(tok)), msg |-> ""]

\* A revocation that does not look at isActive.
revokeTokenAnyRow(tok) ==
    { i \in 1..Len(tokens) : tokens[i].refreshToken = tok }

\* A revocation of every active row of the token's subject.
revokeTokenOfUser(tok) ==
    { i \in 1..Len(tokens) : tokens[i].userId = tok.sub /\ tokens[i].isActive }

\* Token.revokeToken(refreshToken, reason): the active rows it deactivates.
revokeToken(tok) ==
    { i \in 1..Len(tokens) :
        tokens[i].refreshToken = tok /\ tokens[i].isActive }

\* ------------------------------------------------------------------- logout
logout(r) ==
    /\ CanStart(r)
    /\ \E b \in BearerInputs :
         LET rq == [Idle EXCEPT !.op = "logout", !.bearer = b]
             hit == revokeToken(b)
             end(status, msg) ==
                [rq EXCEPT !.pc = "done", !.status = status, !.msg = msg]
         IN  IF b = NoToken
             THEN /\ req' = [req EXCEPT ![r] =
                        end(401, "Refresh token is required in Authorization header")]
                  /\ UNCHANGED tokens
             ELSE IF hit = {}
             THEN /\ req' = [req EXCEPT ![r] =
                        end(400, "Token not found or already revoked")]
                  /\ UNCHANGED tokens
             ELSE \E out \in DbOutcomes :
                    IF out = "error"
                    THEN /\ req' = [req EXCEPT ![r] = end(500, "Internal error")]
                         /\ UNCHANGED tokens
                    ELSE /\ tokens' = [i \in 1..Len(tokens) |->
                               IF i \in hit
                               THEN [tokens[i] EXCEPT !.isActive = FALSE]
                               ELSE tokens[i]]
                         /\ req' = [req EXCEPT ![r] =
                               end(200, "Logged out successfully")]
    /\ UNCHANGED <<users, userRoles, now, issued, sessions>>
    /\ UNCHANGED otpVars
    /\ UNCHANGED sideVars
    /\ UNCHANGED logVars

\* ------------------------------------------------------- refreshAccessToken
\* The bearer token, then Token.verifyRefreshToken.
refresh_verify(r) ==
    /\ CanStart(r)
    /\ \E b \in BearerInputs :
         LET rq == [Idle EXCEPT !.op = "refresh", !.bearer = b]
             v == verifyRefreshToken(b)
             end(status, msg) ==
                [rq EXCEPT !.pc = "done", !.status = status, !.msg = msg]
         IN  req' = [req EXCEPT ![r] =
               IF b = NoToken
               THEN end(401, "Refresh token is required in Authorization header")
               ELSE IF ~v.valid
               THEN end(401, v.msg)
               ELSE [rq EXCEPT !.pc = "findUser", !.uid = b.sub,
                               !.roleName = b.role, !.tokenId = v.tokenId]]
    /\ UNCHANGED <<users, userRoles, tokens, now, issued, sessions>>
    /\ UNCHANGED otpVars
    /\ UNCHANGED sideVars
    /\ UNCHANGED logVars

\* A lookup by userId alone, without isActive: true.
refreshExistingAnyUser(uid) ==
    { u \in Range(users) : u.userId = uid /\ Len(RolesOf(u.userId)) > 0 }

\* User.findOne({ where: { userId: decoded._id, isActive: true }, include roles })
refreshExisting(uid) ==
    { u \in Range(users) :
        u.userId = uid /\ u.isActive /\ Len(RolesOf(u.userId)) > 0 }

\* A refresh that always takes user.roles[0], whatever the token's role is.
refresh_findUserFirstRole(r) ==
    /\ req[r].op = "refresh" /\ req[r].pc = "findUser"
    /\ LET rq == req[r]
           found == refreshExisting(rq.uid)
           roles == RolesOf(rq.uid)
       IN  req' = [req EXCEPT ![r] =
             IF found = {}
             THEN Done(r, 404, "User not found or account deactivated",
                       NoAccess, NoToken)
             ELSE [rq EXCEPT !.pc = "touch", !.role = roles[1],
                             !.access = generateAccessToken(rq.uid, roles[1])]]
    /\ UNCHANGED <<users, userRoles, tokens, now, issued, sessions>>
    /\ UNCHANGED otpVars
    /\ UNCHANGED sideVars
    /\ UNCHANGED logVars

\* User.findOne, the session's role, Token.generateAccessToken.
refresh_findUser(r) ==
    /\ req[r].op = "refresh" /\ req[r].pc = "findUser"
    /\ LET rq == req[r]
           found == refreshExisting(rq.uid)
           roles == RolesOf(rq.uid)
           has == \E i \in 1..Len(roles) : roles[i] = rq.roleName
           activeRoleName ==
               IF rq.roleName # NoRole /\ has THEN rq.roleName ELSE roles[1]
       IN  req' = [req EXCEPT ![r] =
             IF found = {}
             THEN Done(r, 404, "User not found or account deactivated",
                       NoAccess, NoToken)
             ELSE IF Len(roles) = 0
             THEN Done(r, 403, "No active role assigned to this account",
                       NoAccess, NoToken)
             ELSE [rq EXCEPT !.pc = "touch", !.role = activeRoleName,
                             !.access = generateAccessToken(rq.uid, activeRoleName)]]
    /\ UNCHANGED <<users, userRoles, tokens, now, issued, sessions>>
    /\ UNCHANGED otpVars
    /\ UNCHANGED sideVars
    /\ UNCHANGED logVars

\* A refresh that extends the expiry of the row along with lastUsedAt.
refresh_touchExtends(r) ==
    /\ req[r].op = "refresh" /\ req[r].pc = "touch"
    /\ LET rq == req[r]
       IN  /\ tokens' = [tokens EXCEPT
                 ![rq.tokenId].lastUsedAt = now,
                 ![rq.tokenId].expiresAt = calculateExpiryDate(now)]
           /\ req' = [req EXCEPT ![r] =
                 Done(r, 200, "Access token refreshed successfully",
                      rq.access, NoToken)]
           /\ sessions' = sessions \cup {rq.access}
    /\ UNCHANGED <<users, userRoles, now, issued>>
    /\ UNCHANGED otpVars
    /\ UNCHANGED sideVars
    /\ UNCHANGED logVars

\* Token.update({ lastUsedAt }, { where: { tokenId } }), then the response.
refresh_touch(r) ==
    /\ req[r].op = "refresh" /\ req[r].pc = "touch"
    /\ LET rq == req[r]
       IN  \E out \in DbOutcomes :
             IF out = "error"
             THEN /\ req' = [req EXCEPT ![r] =
                        Done(r, 500, "Internal error", NoAccess, NoToken)]
                  /\ UNCHANGED <<tokens, sessions>>
             ELSE /\ tokens' = [tokens EXCEPT ![rq.tokenId].lastUsedAt = now]
                  /\ req' = [req EXCEPT ![r] =
                        Done(r, 200, "Access token refreshed successfully",
                             rq.access, NoToken)]
                  /\ sessions' = sessions \cup {rq.access}
    /\ UNCHANGED <<users, userRoles, now, issued>>
    /\ UNCHANGED otpVars
    /\ UNCHANGED sideVars
    /\ UNCHANGED logVars

\* --------------------------------------------------------------- switchRole
SwitchRoleNames == {NoRole, "Owner", "Broker", "Admin"}

\* A principal that is handed every client role, held or not.
authenticateUserAllRoles(at) ==
    [userId |-> at.sub, role |-> at.role,
     roles |-> <<"Owner", "Broker", "Investor">>]

\* middlewares/auth authenticateUser: req.user of the access token presented.
authenticateUser(at) ==
    [userId |-> at.sub, role |-> at.role, roles |-> RolesOf(at.sub)]

\* The checks of the body, the two new tokens, Token.update of the active rows.
switchRole_TokenUpdate(r) ==
    /\ CanStart(r)
    /\ \E at \in sessions, roleName \in SwitchRoleNames :
         LET user == authenticateUser(at)
             rq == [Idle EXCEPT !.op = "switchRole", !.uid = user.userId,
                                !.roleName = roleName, !.role = user.role]
             end(status, msg) ==
                [rq EXCEPT !.pc = "done", !.status = status, !.msg = msg]
             has == \E i \in 1..Len(user.roles) : user.roles[i] = roleName
             hit == ActiveTokenIds(user.userId)
         IN  IF roleName = NoRole
             THEN /\ req' = [req EXCEPT ![r] = end(400, "roleName is required")]
                  /\ UNCHANGED <<tokens, issued, sessions>>
             ELSE IF roleName \notin validClientRoles
             THEN /\ req' = [req EXCEPT ![r] =
                        end(400, "Only client roles can be switched")]
                  /\ UNCHANGED <<tokens, issued, sessions>>
             ELSE IF ~has
             THEN /\ req' = [req EXCEPT ![r] =
                        end(403, "You do not have the role")]
                  /\ UNCHANGED <<tokens, issued, sessions>>
             ELSE IF user.role = roleName
             THEN /\ req' = [req EXCEPT ![r] =
                        end(400, "already your active role")]
                  /\ UNCHANGED <<tokens, issued, sessions>>
             ELSE /\ FreeJtis # {}
                  /\ LET newAccessToken == generateAccessToken(user.userId, roleName)
                         newRefreshToken == generateRefreshToken(user.userId, roleName)
                     IN  \E out \in DbOutcomes :
                           IF out = "error"
                           THEN /\ req' = [req EXCEPT ![r] = end(500, "Internal error")]
                                /\ UNCHANGED <<tokens, issued, sessions>>
                           ELSE /\ tokens' = [i \in 1..Len(tokens) |->
                                      IF i \in hit
                                      THEN [tokens[i] EXCEPT
                                              !.refreshToken = newRefreshToken,
                                              !.expiresAt = calculateExpiryDate(now),
                                              !.lastUsedAt = now]
                                      ELSE tokens[i]]
                                /\ IF hit = {}
                                   THEN /\ req' = [req EXCEPT ![r] =
                                              [rq EXCEPT !.pc = "TokenCreate",
                                                         !.rt = newRefreshToken,
                                                         !.access = newAccessToken]]
                                        /\ UNCHANGED <<issued, sessions>>
                                   ELSE /\ req' = [req EXCEPT ![r] =
                                              [end(200, "Role switched successfully")
                                                 EXCEPT !.access = newAccessToken,
                                                        !.refresh = newRefreshToken]]
                                        /\ issued' = issued \cup {newRefreshToken}
                                        /\ sessions' = sessions \cup {newAccessToken}
    /\ UNCHANGED <<users, userRoles, now>>
    /\ UNCHANGED otpVars
    /\ UNCHANGED sideVars
    /\ UNCHANGED logVars

\* A switch-role that records a role assignment along with the new row.
switchRole_TokenCreateGrants(r) ==
    /\ req[r].op = "switchRole" /\ req[r].pc = "TokenCreate"
    /\ Len(tokens) < MaxTokens
    /\ LET rq == req[r]
           row == [tokenId |-> Len(tokens) + 1, userId |-> rq.uid,
                   refreshToken |-> rq.rt,
                   expiresAt |-> calculateExpiryDate(now),
                   deviceId |-> NoDevice, isActive |-> TRUE,
                   lastUsedAt |-> NoTime]
       IN  /\ tokens' = Append(tokens, row)
           /\ userRoles' = Append(userRoles,
                 [userId |-> rq.uid, roleName |-> rq.roleName])
           /\ req' = [req EXCEPT ![r] =
                 Done(r, 200, "Role switched successfully", rq.access, rq.rt)]
           /\ issued' = issued \cup {rq.rt}
           /\ sessions' = sessions \cup {rq.access}
    /\ UNCHANGED <<users, now>>
    /\ UNCHANGED otpVars
    /\ UNCHANGED sideVars
    /\ UNCHANGED logVars

\* if (updatedCount === 0) Token.create({...}); then the response.
switchRole_TokenCreate(r) ==
    /\ req[r].op = "switchRole" /\ req[r].pc = "TokenCreate"
    /\ Len(tokens) < MaxTokens
    /\ LET rq == req[r]
           row == [tokenId |-> Len(tokens) + 1, userId |-> rq.uid,
                   refreshToken |-> rq.rt,
                   expiresAt |-> calculateExpiryDate(now),
                   deviceId |-> NoDevice, isActive |-> TRUE,
                   lastUsedAt |-> NoTime]
       IN  \E out \in DbOutcomes :
             IF out = "error"
             THEN /\ req' = [req EXCEPT ![r] =
                        Done(r, 500, "Internal error", NoAccess, NoToken)]
                  /\ UNCHANGED <<tokens, issued, sessions>>
             ELSE /\ tokens' = Append(tokens, row)
                  /\ req' = [req EXCEPT ![r] =
                        Done(r, 200, "Role switched successfully", rq.access, rq.rt)]
                  /\ issued' = issued \cup {rq.rt}
                  /\ sessions' = sessions \cup {rq.access}
    /\ UNCHANGED <<users, userRoles, now>>
    /\ UNCHANGED otpVars
    /\ UNCHANGED sideVars
    /\ UNCHANGED logVars

\* -------------------------------------------------------------- environment
\* Time passes.
Tick ==
    /\ now < MaxTime
    /\ now' = now + 1
    /\ UNCHANGED <<users, userRoles, tokens, req, issued, sessions>>
    /\ UNCHANGED otpVars
    /\ UNCHANGED sideVars
    /\ UNCHANGED logVars

\* An administrator deactivates an account (outside these handlers).
DeactivateUser ==
    /\ \E i \in 1..Len(users) :
          /\ users[i].isActive
          /\ users' = [users EXCEPT ![i].isActive = FALSE]
    /\ UNCHANGED <<userRoles, tokens, now, req, issued, sessions>>
    /\ UNCHANGED otpVars
    /\ UNCHANGED sideVars
    /\ UNCHANGED logVars

\* An administrator takes a role away from a user (outside these handlers).
RemoveRole ==
    /\ \E i \in 1..Len(userRoles) :
          userRoles' = SelectSeq2(userRoles, (1..Len(userRoles)) \ {i})
    /\ UNCHANGED <<users, tokens, now, req, issued, sessions>>
    /\ UNCHANGED otpVars
    /\ UNCHANGED sideVars
    /\ UNCHANGED logVars

\* The response has been sent; the slot serves the next request.
Finish(r) ==
    /\ req[r].pc = "done"
    /\ req' = [req EXCEPT ![r] = Idle]
    /\ UNCHANGED <<users, userRoles, tokens, now, issued, sessions>>
    /\ UNCHANGED otpVars
    /\ UNCHANGED sideVars
    /\ UNCHANGED logVars

\* Sessions of one identity on two devices, at one instant.
Next ==
    \E r \in Req :
        \/ signup_verifyOtp(r, SignupOne)
        \/ signup_findExisting(r)
        \/ signup_UserCreate(r)
        \/ signup_UserRoleCreate(r)
        \/ signup_TokenCreate(r)
        \/ login_verifyOtp(r, LoginInputs)
        \/ login_findUser(r)
        \/ login_TokenUpdate(r)
        \/ login_UserUpdate(r)
        \/ login_TokenCreate(r)
        \/ logout(r)
        \/ refresh_verify(r)
        \/ refresh_findUser(r)
        \/ refresh_touch(r)
        \/ Finish(r)

Spec == Init /\ [][Next]_vars

\* Concurrent registrations of several identities.
NextSignup ==
    \E r \in Req :
        \/ signup_verifyOtp(r, SignupInputs)
        \/ signup_findExisting(r)
        \/ signup_UserCreate(r)
        \/ signup_UserRoleCreate(r)
        \/ signup_TokenCreate(r)
        \/ Finish(r)

SpecSignup == Init /\ [][NextSignup]_vars

\* Every use case that writes a token row, with a second role to switch to.
NextRoles ==
    \E r \in Req :
        \/ signup_verifyOtp(r, SignupOne)
        \/ signup_findExisting(r)
        \/ signup_UserCreate(r)
        \/ signup_UserRoleCreate(r)
        \/ signup_TokenCreate(r)
        \/ login_verifyOtp(r, LoginRoles)
        \/ login_findUser(r)
        \/ login_UserRoleCreate(r)
        \/ login_TokenUpdate(r)
        \/ login_UserUpdate(r)
        \/ login_TokenCreate(r)
        \/ logout(r)
        \/ switchRole_TokenUpdate(r)
        \/ switchRole_TokenCreate(r)
        \/ Finish(r)

SpecRoles == Init /\ [][NextRoles]_vars

\* Sessions while time passes: requests one after the other, and refreshes
\* running beside them.
NextClock ==
    \/ signup_verifyOtp(1, SignupOne)
    \/ signup_findExisting(1)
    \/ signup_UserCreate(1)
    \/ signup_UserRoleCreate(1)
    \/ signup_TokenCreate(1)
    \/ login_verifyOtp(1, LoginOne)
    \/ login_findUser(1)
    \/ login_TokenUpdate(1)
    \/ login_UserUpdate(1)
    \/ login_TokenCreate(1)
    \/ logout(1)
    \/ \E r \in Req :
        \/ refresh_verify(r)
        \/ refresh_findUser(r)
        \/ refresh_touch(r)
        \/ Finish(r)
    \/ Tick

SpecClock == Init /\ [][NextClock]_vars

\* Every use case: the writing requests one after the other, and refreshes
\* running beside them.
NextSession ==
    \/ signup_verifyOtp(1, SignupOne)
    \/ signup_findExisting(1)
    \/ signup_UserCreate(1)
    \/ signup_UserRoleCreate(1)
    \/ signup_TokenCreate(1)
    \/ login_verifyOtp(1, LoginRoles)
    \/ login_findUser(1)
    \/ login_UserRoleCreate(1)
    \/ login_TokenUpdate(1)
    \/ login_UserUpdate(1)
    \/ login_TokenCreate(1)
    \/ logout(1)
    \/ switchRole_TokenUpdate(1)
    \/ switchRole_TokenCreate(1)
    \/ \E r \in Req :
        \/ refresh_verify(r)
        \/ refresh_findUser(r)
        \/ refresh_touch(r)
        \/ Finish(r)

SpecSession == Init /\ [][NextSession]_vars

\* Refreshes while an administrator deactivates accounts and removes roles.
\* Without logout every login finds a row to rotate, so login never creates one.
NextAdmin ==
    \/ signup_verifyOtp(1, SignupOne)
    \/ signup_findExisting(1)
    \/ signup_UserCreate(1)
    \/ signup_UserRoleCreate(1)
    \/ signup_TokenCreate(1)
    \/ login_verifyOtp(1, LoginRoles)
    \/ login_findUser(1)
    \/ login_UserRoleCreate(1)
    \/ login_TokenUpdate(1)
    \/ login_UserUpdate(1)
    \/ \E r \in Req :
        \/ refresh_verify(r)
        \/ refresh_findUser(r)
        \/ refresh_touch(r)
        \/ Finish(r)
    \/ DeactivateUser
    \/ RemoveRole

SpecAdmin == Init /\ [][NextAdmin]_vars

\* ... and the login of an account that is not of the client type.
LoginStaff ==
    [mobile : {M1}, roleName : {NoRole, "Owner", "Admin"},
     device : {"d1", "d2"}, named : {TRUE}]

\* An internal account, created by an administrator, with the Admin role.
InitStaff ==
    /\ users = << [userId |-> 1, mobileNumber |-> M1, email |-> E1,
                   reraNumber |-> NoRera, userType |-> "internal",
                   isActive |-> TRUE, lastLoginAt |-> NoTime] >>
    /\ userRoles = << [userId |-> 1, roleName |-> "Admin"] >>
    /\ tokens = <<>>
    /\ now = 0
    /\ req = [r \in Req |-> Idle]
    /\ issued = {}
    /\ sessions = {}
    /\ cachedToken = NoCredential
    /\ tokenExpiresAt = NoTime
    /\ configured = TRUE
    /\ otpCall = NoCall
    /\ noteRecord = NewNoteRecord
    /\ noteResult = NoNoteCall
    /\ proc = Listening
    /\ call = NoInvocation
    /\ apiLogs = <<>>

\* Logins of the internal account; its userType keeps login from granting.
NextStaff ==
    \E r \in Req :
        \/ login_verifyOtp(r, LoginStaff)
        \/ login_findUser(r)
        \/ login_TokenUpdate(r)
        \/ login_UserUpdate(r)
        \/ login_TokenCreate(r)
        \/ Finish(r)

SpecStaff == InitStaff /\ [][NextStaff]_vars

\* ------------------------------------------------- otpService: the gateway
\* Calls of the gateway are served one at a time.  A call is one step: the
\* credential lookup of getAuthToken, the request to the provider, and the
\* result returned or the error thrown.
ProviderTokens == {1, 2}

\* The provider's answers to /auth/v1/authentication/token: response.ok and
\* data.token.
AuthResponses == [ok : BOOLEAN, token : {NoCredential} \cup ProviderTokens]

\* The provider's answers to /verification/v3/send: response.status,
\* data.responseCode and data.data?.verificationId.  A 401 carries no result.
SendResponses ==
    [http : {200}, responseCode : {200, 506, NoCode},
     verificationId : {"v1", NoVerificationId}]
    \cup { [http |-> 401, responseCode |-> NoCode,
            verificationId |-> NoVerificationId] }

\* The provider's answers to /verification/v3/validateOtp: response.status,
\* data.responseCode and data.data?.verificationStatus.
VerifyResponses ==
    [http : {200}, responseCode : {200, 702, 705, 800, 506, NoCode},
     verificationStatus :
        {"VERIFICATION_COMPLETED", "VERIFICATION_FAILED", NoStatus}]
    \cup { [http |-> 401, responseCode |-> NoCode,
            verificationStatus |-> NoStatus] }

\* A credential lookup that trusts the cache until the very expiry.
getAuthTokenNoMargin(auth) ==
    LET kept == [token |-> NoCredential, cachedToken |-> cachedToken,
                 tokenExpiresAt |-> tokenExpiresAt, authCalled |-> FALSE,
                 authOk |-> FALSE, status |-> 0, msg |-> ""]
    IN  IF /\ cachedToken # NoCredential /\ tokenExpiresAt # NoTime
           /\ now < tokenExpiresAt
        THEN [kept EXCEPT !.token = cachedToken]
        ELSE IF ~configured
        THEN [kept EXCEPT !.status = 500,
                          !.msg = "MessageCentral credentials not configured"]
        ELSE IF ~auth.ok \/ auth.token = NoCredential
        THEN [kept EXCEPT !.authCalled = TRUE, !.status = 500,
                          !.msg = "Failed to get MessageCentral auth token"]
        ELSE [kept EXCEPT !.token = auth.token, !.cachedToken = auth.token,
                          !.tokenExpiresAt = now + CacheLifetime,
                          !.authCalled = TRUE, !.authOk = TRUE]

\* getAuthToken: the credential handed to the caller, the cache it leaves
\* behind, whether the provider was asked, and the error thrown (status 0
\* when none).
getAuthToken(auth) ==
    LET kept == [token |-> NoCredential, cachedToken |-> cachedToken,
                 tokenExpiresAt |-> tokenExpiresAt, authCalled |-> FALSE,
                 authOk |-> FALSE, status |-> 0, msg |-> ""]
    IN  IF /\ cachedToken # NoCredential /\ tokenExpiresAt # NoTime
           /\ now < tokenExpiresAt - CacheMargin
        THEN [kept EXCEPT !.token = cachedToken]
        ELSE IF ~configured
        THEN [kept EXCEPT !.status = 500,
                          !.msg = "MessageCentral credentials not configured"]
        ELSE IF ~auth.ok \/ auth.token = NoCredential
        THEN [kept EXCEPT !.authCalled = TRUE, !.status = 500,
                          !.msg = "Failed to get MessageCentral auth token"]
        ELSE [kept EXCEPT !.token = auth.token, !.cachedToken = auth.token,
                          !.tokenExpiresAt = now + CacheLifetime,
                          !.authCalled = TRUE, !.authOk = TRUE]

\* The part of a call's record that getAuthToken fills in.
Asked(fn, mobile, a) ==
    [NoCall EXCEPT !.fn = fn, !.mobile = mobile, !.reached = TRUE,
                   !.authCalled = a.authCalled, !.authOk = a.authOk,
                   !.token = a.token, !.status = a.status, !.msg = a.msg]

\* otpService.sendOtp: the cache it leaves behind and the record of the call
\* (status 0 when { verificationId, timeout } is returned).
sendOtp(mobile, auth, resp) ==
    LET a == getAuthToken(auth)
        sent == [Asked("sendOtp", mobile, a) EXCEPT
                    !.providerCalled = TRUE, !.http = resp.http,
                    !.responseCode = resp.responseCode,
                    !.verificationId = resp.verificationId]
    IN  IF a.status # 0
        THEN [cachedToken |-> a.cachedToken,
              tokenExpiresAt |-> a.tokenExpiresAt,
              call |-> Asked("sendOtp", mobile, a)]
        ELSE IF \/ resp.responseCode # 200
                \/ resp.verificationId = NoVerificationId
        THEN [cachedToken |->
                 IF resp.http = 401 THEN NoCredential ELSE a.cachedToken,
              tokenExpiresAt |->
                 IF resp.http = 401 THEN NoTime ELSE a.tokenExpiresAt,
              call |-> [sent EXCEPT
                          !.status = 400,
                          !.msg = "Failed to send OTP. Please try again."]]
        ELSE [cachedToken |-> a.cachedToken,
              tokenExpiresAt |-> a.tokenExpiresAt,
              call |-> sent]

\* otpService.verifyOtp as a call: getAuthToken, the request to the provider,
\* and the mapping of its answer.
verifyOtpCall(auth, resp) ==
    LET a == getAuthToken(auth)
        v == verifyOtp(resp)
    IN  IF a.status # 0
        THEN [cachedToken |-> a.cachedToken,
              tokenExpiresAt |-> a.tokenExpiresAt,
              call |-> Asked("verifyOtp", NoMobile, a)]
        ELSE [cachedToken |-> a.cachedToken,
              tokenExpiresAt |-> a.tokenExpiresAt,
              call |-> [Asked("verifyOtp", NoMobile, a) EXCEPT
                          !.providerCalled = TRUE, !.http = resp.http,
                          !.responseCode = resp.responseCode,
                          !.verificationStatus = resp.verificationStatus,
                          !.status = v.status, !.msg = v.msg]]

\* Bodies of POST /send-otp.
SendOtpMobiles == {NoMobile, MShort, M1}

\* POST /send-otp: validation of the body, then otpService.sendOtp.
sendOtpHandler ==
    /\ otpCall.fn = "none"
    /\ \E mobile \in SendOtpMobiles, auth \in AuthResponses,
          resp \in SendResponses :
         LET refused(msg) ==
                 [NoCall EXCEPT !.fn = "sendOtp", !.mobile = mobile,
                                !.status = 400, !.msg = msg]
             out == sendOtp(mobile, auth, resp)
         IN  IF mobile = NoMobile
             THEN /\ otpCall' = refused("mobileNumber is required")
                  /\ UNCHANGED <<cachedToken, tokenExpiresAt>>
             ELSE IF ~isValidPhone(mobile)
             THEN /\ otpCall' = refused("Invalid mobile number")
                  /\ UNCHANGED <<cachedToken, tokenExpiresAt>>
             ELSE /\ otpCall' = out.call
                  /\ cachedToken' = out.cachedToken
                  /\ tokenExpiresAt' = out.tokenExpiresAt
    /\ UNCHANGED <<users, userRoles, tokens, now, req, issued, sessions,
                   configured>>
    /\ UNCHANGED sideVars
    /\ UNCHANGED logVars

\* await otpService.verifyOtp(verificationId, otp) in signup and login.
otpService_verifyOtp ==
    /\ otpCall.fn = "none"
    /\ \E auth \in AuthResponses, resp \in VerifyResponses :
         LET out == verifyOtpCall(auth, resp)
         IN  /\ otpCall' = out.call
             /\ cachedToken' = out.cachedToken
             /\ tokenExpiresAt' = out.tokenExpiresAt
    /\ UNCHANGED <<users, userRoles, tokens, now, req, issued, sessions,
                   configured>>
    /\ UNCHANGED sideVars
    /\ UNCHANGED logVars

\* The call has returned or thrown; the gateway serves the next one.
OtpReturn ==
    /\ otpCall.fn # "none"
    /\ otpCall' = NoCall
    /\ UNCHANGED <<users, userRoles, tokens, now, req, issued, sessions,
                   cachedToken, tokenExpiresAt, configured>>
    /\ UNCHANGED sideVars
    /\ UNCHANGED logVars

\* Five minutes pass.
TickOtp ==
    /\ now < MaxOtpTime
    /\ now' = now + 1
    /\ UNCHANGED <<users, userRoles, tokens, req, issued, sessions>>
    /\ UNCHANGED otpVars
    /\ UNCHANGED sideVars
    /\ UNCHANGED logVars

\* A process started with or without the provider's credentials in its
\* environment.
InitOtp ==
    /\ users = <<>>
    /\ userRoles = <<>>
    /\ tokens = <<>>
    /\ now = 0
    /\ req = [r \in Req |-> Idle]
    /\ issued = {}
    /\ sessions = {}
    /\ cachedToken = NoCredential
    /\ tokenExpiresAt = NoTime
    /\ configured \in BOOLEAN
    /\ otpCall = NoCall
    /\ noteRecord = NewNoteRecord
    /\ noteResult = NoNoteCall
    /\ proc = Listening
    /\ call = NoInvocation
    /\ apiLogs = <<>>

\* The gateway on its own, with its clock.
NextOtp ==
    \/ sendOtpHandler
    \/ otpService_verifyOtp
    \/ OtpReturn
    \/ TickOtp

SpecOtp == InitOtp /\ [][NextOtp]_vars

\* ------------------------------------------------- models/propertyInvestorNote
NoteIds == 1..MaxNotes

NoteTexts == {"a", "b"}

\* uuidv4(): an id that no note of the record has.
FreshNoteIds(rec) ==
    NoteIds \ { rec.notes[i].noteId : i \in 1..Len(rec.notes) }

\* notes.findIndex((n) => n.noteId === noteId): -1 when there is none.
findIndex(notes, noteId) ==
    LET hits == { i \in 1..Len(notes) : notes[i].noteId = noteId }
    IN  IF hits = {} THEN -1 ELSE Min(hits)

\* An addNote that counts the notes before it appends the new one.
addNoteStaleCount(rec, noteId, noteText, investorId) ==
    LET newNote == [noteId |-> noteId, noteText |-> noteText,
                    createdBy |-> investorId, createdAt |-> now,
                    updatedAt |-> NoTime]
    IN  [notes |-> Append(rec.notes, newNote),
         totalNotesCount |-> Len(rec.notes),
         ret |-> newNote]

\* PropertyInvestorNote.addNote: the record it leaves and the note returned;
\* noteId is the value of uuidv4().
addNote(rec, noteId, noteText, investorId) ==
    LET newNote == [noteId |-> noteId, noteText |-> noteText,
                    createdBy |-> investorId, createdAt |-> now,
                    updatedAt |-> NoTime]
        notes == Append(rec.notes, newNote)
    IN  [notes |-> notes, totalNotesCount |-> Len(notes), ret |-> newNote]

\* PropertyInvestorNote.getNoteById
getNoteById(rec, noteId) ==
    LET i == findIndex(rec.notes, noteId)
    IN  IF i = -1 THEN NoNote ELSE rec.notes[i]

\* PropertyInvestorNote.updateNote: the record it leaves and what it returns.
updateNote(rec, noteId, newNoteText) ==
    LET noteIndex == findIndex(rec.notes, noteId)
    IN  IF noteIndex = -1
        THEN [notes |-> rec.notes, totalNotesCount |-> rec.totalNotesCount,
              ret |-> NoNote]
        ELSE LET note == [rec.notes[noteIndex] EXCEPT
                             !.noteText = newNoteText, !.updatedAt = now]
             IN  [notes |-> [rec.notes EXCEPT ![noteIndex] = note],
                  totalNotesCount |-> rec.totalNotesCount,
                  ret |-> note]

AddNote ==
    /\ Len(noteRecord.notes) < MaxNotes
    /\ \E id \in FreshNoteIds(noteRecord), text \in NoteTexts :
         LET out == addNote(noteRecord, id, text, "i1")
         IN  /\ noteRecord' = [notes |-> out.notes,
                               totalNotesCount |-> out.totalNotesCount]
             /\ noteResult' = [fn |-> "addNote", noteId |-> id,
                               ret |-> out.ret]
    /\ UNCHANGED <<users, userRoles, tokens, now, req, issued, sessions, proc>>
    /\ UNCHANGED otpVars
    /\ UNCHANGED logVars

UpdateNote ==
    /\ \E id \in NoteIds, text \in NoteTexts :
         LET out == updateNote(noteRecord, id, text)
         IN  /\ noteRecord' = [notes |-> out.notes,
                               totalNotesCount |-> out.totalNotesCount]
             /\ noteResult' = [fn |-> "updateNote", noteId |-> id,
                               ret |-> out.ret]
    /\ UNCHANGED <<users, userRoles, tokens, now, req, issued, sessions, proc>>
    /\ UNCHANGED otpVars
    /\ UNCHANGED logVars

GetNoteById ==
    /\ \E id \in NoteIds :
         noteResult' = [fn |-> "getNoteById", noteId |-> id,
                        ret |-> getNoteById(noteRecord, id)]
    /\ UNCHANGED <<users, userRoles, tokens, now, req, issued, sessions,
                   noteRecord, proc>>
    /\ UNCHANGED otpVars
    /\ UNCHANGED logVars

\* A record as created, or one loaded with a note and the matching count.
InitNotes ==
    /\ users = <<>>
    /\ userRoles = <<>>
    /\ tokens = <<>>
    /\ now = 0
    /\ req = [r \in Req |-> Idle]
    /\ issued = {}
    /\ sessions = {}
    /\ cachedToken = NoCredential
    /\ tokenExpiresAt = NoTime
    /\ configured = TRUE
    /\ otpCall = NoCall
    /\ noteRecord \in
          { NewNoteRecord,
            [notes |-> << [noteId |-> 1, noteText |-> "a", createdBy |-> "i1",
                           createdAt |-> now, updatedAt |-> NoTime] >>,
             totalNotesCount |-> 1] }
    /\ noteResult = NoNoteCall
    /\ proc = Listening
    /\ call = NoInvocation
    /\ apiLogs = <<>>

NextNotes ==
    \/ AddNote
    \/ UpdateNote
    \/ GetNoteById

SpecNotes == InitNotes /\ [][NextNotes]_vars

\* ------------------------------------------------------- index.js shutdown
Signals == {"SIGTERM", "SIGINT"}

Running == proc.exit = "running"

\* A gracefulShutdown that arms no forced-shutdown timer.
gracefulShutdownNoTimer(p, signal) ==
    [p EXCEPT !.signals = @ + 1, !.last = signal,
              !.server = IF @ = "listening" THEN "closing" ELSE @,
              !.cb[p.signals + 1] = "registered"]

\* gracefulShutdown(signal): server.close(callback) stops the listener and
\* registers the callback for the 'close' event (also when the listener is
\* closing or closed already); setTimeout arms one more timer.
gracefulShutdown(p, signal) ==
    [p EXCEPT !.signals = @ + 1, !.last = signal,
              !.server = IF @ = "listening" THEN "closing" ELSE @,
              !.cb[p.signals + 1] = "registered",
              !.timers = @ + 1]

\* A client opens a connection to the listening server.
Connect ==
    /\ Running
    /\ proc.server = "listening"
    /\ proc.conns < MaxConns
    /\ proc' = [proc EXCEPT !.conns = @ + 1]
    /\ UNCHANGED <<users, userRoles, tokens, now, req, issued, sessions,
                   noteRecord, noteResult>>
    /\ UNCHANGED otpVars
    /\ UNCHANGED logVars

\* A connection ends.
Disconnect ==
    /\ Running
    /\ proc.conns > 0
    /\ proc' = [proc EXCEPT !.conns = @ - 1]
    /\ UNCHANGED <<users, userRoles, tokens, now, req, issued, sessions,
                   noteRecord, noteResult>>
    /\ UNCHANGED otpVars
    /\ UNCHANGED logVars

\* process.on('SIGTERM' | 'SIGINT', () => gracefulShutdown(signal))
Signal ==
    /\ Running
    /\ proc.signals < MaxSignals
    /\ \E signal \in Signals : proc' = gracefulShutdown(proc, signal)
    /\ UNCHANGED <<users, userRoles, tokens, now, req, issued, sessions,
                   noteRecord, noteResult>>
    /\ UNCHANGED otpVars
    /\ UNCHANGED logVars

\* The 'close' event of the server, emitted once the listener is stopped and
\* no connection is left: every registered callback runs to its first await,
\* the call of closeConnection().
emitClose ==
    /\ Running
    /\ proc.server \in {"closing", "closed"}
    /\ proc.conns = 0
    /\ \E i \in 1..MaxSignals : proc.cb[i] = "registered"
    /\ proc' = [proc EXCEPT
                  !.server = "closed",
                  !.cb = [i \in 1..MaxSignals |->
                            IF proc.cb[i] = "registered"
                            THEN "closeConnection" ELSE proc.cb[i]],
                  !.sql = IF @ = "open" THEN "closing" ELSE @]
    /\ UNCHANGED <<users, userRoles, tokens, now, req, issued, sessions,
                   noteRecord, noteResult>>
    /\ UNCHANGED otpVars
    /\ UNCHANGED logVars

\* await closeConnection() returns in callback i, which calls closeMongo().
closeConnection(i) ==
    /\ Running
    /\ proc.cb[i] = "closeConnection"
    /\ proc' = [proc EXCEPT !.cb[i] = "closeMongo",
                            !.sql = "closed",
                            !.mongo = IF @ = "open" THEN "closing" ELSE @]
    /\ UNCHANGED <<users, userRoles, tokens, now, req, issued, sessions,
                   noteRecord, noteResult>>
    /\ UNCHANGED otpVars
    /\ UNCHANGED logVars

\* await closeMongo() returns in callback i: mongoose.connection.close() has
\* resolved, or it has rejected and the catch of closeMongo has logged the
\* error; the callback then calls process.exit(0).
closeMongo(i) ==
    /\ Running
    /\ proc.cb[i] = "closeMongo"
    /\ \E outcome \in DbOutcomes :
         proc' = [proc EXCEPT
                    !.cb[i] = "exit",
                    !.mongo = IF outcome = "ok" THEN "closed"
                              ELSE IF @ = "closed" THEN @ ELSE "error",
                    !.exit = "0"]
    /\ UNCHANGED <<users, userRoles, tokens, now, req, issued, sessions,
                   noteRecord, noteResult>>
    /\ UNCHANGED otpVars
    /\ UNCHANGED logVars

\* The callback of setTimeout(..., 30000): process.exit(1).
forceShutdown ==
    /\ Running
    /\ proc.timers > 0
    /\ proc' = [proc EXCEPT !.exit = "1"]
    /\ UNCHANGED <<users, userRoles, tokens, now, req, issued, sessions,
                   noteRecord, noteResult>>
    /\ UNCHANGED otpVars
    /\ UNCHANGED logVars

\* The process once index.js has run: listening, nothing signalled.
InitShutdown ==
    /\ users = <<>>
    /\ userRoles = <<>>
    /\ tokens = <<>>
    /\ now = 0
    /\ req = [r \in Req |-> Idle]
    /\ issued = {}
    /\ sessions = {}
    /\ cachedToken = NoCredential
    /\ tokenExpiresAt = NoTime
    /\ configured = TRUE
    /\ otpCall = NoCall
    /\ noteRecord = NewNoteRecord
    /\ noteResult = NoNoteCall
    /\ proc = Listening
    /\ call = NoInvocation
    /\ apiLogs = <<>>

NextShutdown ==
    \/ Connect
    \/ Disconnect
    \/ Signal
    \/ emitClose
    \/ \E i \in 1..MaxSignals : closeConnection(i)
    \/ \E i \in 1..MaxSignals : closeMongo(i)
    \/ forceShutdown

\* The event loop runs the callback of an armed timer once its delay is over.
SpecShutdown == InitShutdown /\ [][NextShutdown]_vars /\ WF_vars(forceShutdown)

\* ------------------------------------------------- request logging (logs.js)
UseCases == {"signup", "login", "logout", "refresh", "switchRole"}

Redacted == "[REDACTED]"

SuccessMarker == "[SUCCESS]"

PresentMarker == "[PRESENT]"

\* What a client submits.
SubmittedOtp == "123456"

SubmittedBearer == "Bearer eyJ.rt"

SubmittedCookie == "sid=1"

\* authHeader.startsWith("Bearer ") ? authHeader.substring(7) : null
bearerOf(authHeader) ==
    CASE authHeader = SubmittedBearer -> "eyJ.rt"
      [] OTHER -> Null

\* The requests of each use case: signup and login read the body, logout,
\* refresh and switchRole the Authorization header.
Requests(op) ==
    IF op \in {"signup", "login"}
    THEN { [mobileNumber |-> m, email |-> e, otp |-> o,
            verificationId |-> IF o = Absent THEN Absent ELSE "v1",
            deviceId |-> d, authorization |-> Absent, cookie |-> Absent] :
             m \in {Absent, "9876543210"},
             e \in IF op = "signup" THEN {Absent, "a@x.com"} ELSE {Absent},
             o \in {Absent, SubmittedOtp},
             d \in {Absent, "d1"} }
    ELSE { [mobileNumber |-> Absent, email |-> Absent, otp |-> Absent,
            verificationId |-> Absent, deviceId |-> Absent,
            authorization |-> a, cookie |-> c] :
             a \in {Absent, SubmittedBearer, "Basic dTpw"},
             c \in {Absent, SubmittedCookie} }

\* The status of the success response of each use case.
SuccessStatus(op) == IF op = "signup" THEN 201 ELSE 200

Returned == [threw |-> FALSE, statusCode |-> 0]

\* createAppError(message, statusCode); statusCode 0 is an Error without
\* one, as the persistence layer throws.
Thrown(statusCode) == [threw |-> TRUE, statusCode |-> statusCode]

\* How the try block of a handler can end for a request: it reaches the
\* success log, or it throws.
BodyOutcomes(op, rq) ==
    CASE op = "signup" ->
           IF Absent \in {rq.mobileNumber, rq.email, rq.otp}
           THEN {Thrown(400)}
           ELSE {Returned, Thrown(400), Thrown(409), Thrown(429),
                 Thrown(500), Thrown(0)}
      [] op = "login" ->
           IF Absent \in {rq.mobileNumber, rq.otp}
           THEN {Thrown(400)}
           ELSE {Returned, Thrown(400), Thrown(404), Thrown(429),
                 Thrown(500), Thrown(0)}
      [] op = "logout" ->
           IF bearerOf(rq.authorization) = Null
           THEN {Thrown(401)}
           ELSE {Returned, Thrown(400), Thrown(0)}
      [] op = "refresh" ->
           IF bearerOf(rq.authorization) = Null
           THEN {Thrown(401)}
           ELSE {Returned, Thrown(401), Thrown(404), Thrown(403), Thrown(0)}
      [] OTHER ->
           {Returned, Thrown(400), Thrown(403), Thrown(0)}

\* undefined: the handler passes no requestBodyLog.
NoBodyLog ==
    [mobileNumber |-> Absent, email |-> Absent, otp |-> Absent,
     verificationId |-> Absent, deviceId |-> Absent, refreshToken |-> Absent]

\* const requestBodyLog = { ... } of each handler, before its try.
requestBodyLog(op, rq) ==
    CASE op = "signup" ->
           [mobileNumber |-> rq.mobileNumber, email |-> rq.email,
            otp |-> IF rq.otp # Absent THEN Redacted ELSE Null,
            verificationId |->
                IF rq.verificationId # Absent THEN PresentMarker ELSE Null,
            deviceId |-> IF rq.deviceId # Absent THEN Redacted ELSE Null,
            refreshToken |-> Absent]
      [] op = "login" ->
           [mobileNumber |-> rq.mobileNumber, email |-> Absent,
            otp |-> IF rq.otp # Absent THEN Redacted ELSE Null,
            verificationId |->
                IF rq.verificationId # Absent THEN PresentMarker ELSE Null,
            deviceId |-> IF rq.deviceId # Absent THEN Redacted ELSE Null,
            refreshToken |-> Absent]
      [] op = "refresh" ->
           [NoBodyLog EXCEPT
              !.refreshToken = IF bearerOf(rq.authorization) # Null
                               THEN Redacted ELSE Null]
      [] OTHER -> NoBodyLog

\* The responseData of the success log of each handler.
successData(op, rq) ==
    [status |-> SuccessStatus(op),
     requestBodyLog |->
        CASE op = "signup" ->
               [requestBodyLog(op, rq) EXCEPT !.email = SuccessMarker,
                                              !.mobileNumber = SuccessMarker]
          [] op = "login" ->
               [NoBodyLog EXCEPT !.mobileNumber = SuccessMarker,
                                 !.deviceId = Redacted]
          [] OTHER -> requestBodyLog(op, rq)]

\* error.statusCode || 500
errorStatus(error) == IF error.statusCode = 0 THEN 500 ELSE error.statusCode

\* A failure log that records 500 whatever was thrown.
failureDataAlways500(op, rq, error) ==
    [status |-> 500, requestBodyLog |-> requestBodyLog(op, rq)]

\* The responseData of the log in the catch of each handler.
failureData(op, rq, error) ==
    [status |-> errorStatus(error), requestBodyLog |-> requestBodyLog(op, rq)]

\* Headers logged as they came.
rawHeaders(rq) ==
    [authorization |-> rq.authorization, cookie |-> rq.cookie]

\* safeHeaders of logRequest: authorization and cookie are replaced when set.
safeHeaders(rq) ==
    [authorization |->
        IF rq.authorization # Absent THEN Redacted ELSE rq.authorization,
     cookie |-> IF rq.cookie # Absent THEN Redacted ELSE rq.cookie]

\* A logRequest without its try / catch: a failed write is thrown on.
logRequestThrows(logs, rq, responseData, outcome) ==
    [logs  |-> IF outcome = "ok"
               THEN Append(logs, [requestHeaders |-> safeHeaders(rq),
                                  requestBody |-> responseData.requestBodyLog,
                                  responseStatus |-> responseData.status])
               ELSE logs,
     threw |-> outcome # "ok"]

\* logRequest(req, responseData, startTime): ApiLog.create inside try, the
\* catch only writes to the console. outcome is that of ApiLog.create.
logRequest(logs, rq, responseData, outcome) ==
    [logs  |-> IF outcome = "ok"
               THEN Append(logs, [requestHeaders |-> safeHeaders(rq),
                                  requestBody |-> responseData.requestBodyLog,
                                  responseStatus |-> responseData.status])
               ELSE logs,
     threw |-> FALSE]

\* A handler is invoked and runs its try block up to the success log or to
\* the throw.
handler_try ==
    /\ call.pc = "idle"
    /\ Len(apiLogs) < MaxApiLogs
    /\ \E op \in UseCases :
         \E rq \in Requests(op) :
           \E e \in BodyOutcomes(op, rq) :
             call' = [NoInvocation EXCEPT
                        !.op = op, !.rq = rq, !.body = e, !.error = e,
                        !.pc = IF e.threw THEN "catch" ELSE "logSuccess"]
    /\ UNCHANGED <<users, userRoles, tokens, now, req, issued, sessions,
                   apiLogs>>
    /\ UNCHANGED otpVars
    /\ UNCHANGED sideVars

\* await logRequest(success data); return sendEncodedResponse(...). Both are
\* inside the try: an error of either is caught by the handler's catch.
handler_logSuccess ==
    /\ call.pc = "logSuccess"
    /\ \E outcome \in DbOutcomes :
         LET data == successData(call.op, call.rq)
             out  == logRequest(apiLogs, call.rq, data, outcome)
         IN  /\ apiLogs' = out.logs
             /\ call' =
                  IF out.threw
                  THEN [call EXCEPT !.pc = "catch", !.error = Thrown(0),
                                    !.logCalls = @ + 1,
                                    !.logStatus = data.status,
                                    !.logWritten = FALSE]
                  ELSE [call EXCEPT !.pc = "done",
                                    !.logCalls = @ + 1,
                                    !.logStatus = data.status,
                                    !.logWritten = (outcome = "ok"),
                                    !.status = SuccessStatus(call.op),
                                    !.sent = "response"]
    /\ UNCHANGED <<users, userRoles, tokens, now, req, issued, sessions>>
    /\ UNCHANGED otpVars
    /\ UNCHANGED sideVars

\* catch (error) { await logRequest(failure data); return next(error); }
\* The error middleware answers error.statusCode || 500; an error thrown
\* inside the catch reaches it through asyncHandler.
handler_catch ==
    /\ call.pc = "catch"
    /\ \E outcome \in DbOutcomes :
         LET data == failureData(call.op, call.rq, call.error)
             out  == logRequest(apiLogs, call.rq, data, outcome)
         IN  /\ apiLogs' = out.logs
             /\ call' = [call EXCEPT
                           !.pc = "done",
                           !.logCalls = @ + 1,
                           !.logStatus = data.status,
                           !.logWritten = (outcome = "ok"),
                           !.status = IF out.threw THEN 500
                                      ELSE errorStatus(call.error),
                           !.sent = "next"]
    /\ UNCHANGED <<users, userRoles, tokens, now, req, issued, sessions>>
    /\ UNCHANGED otpVars
    /\ UNCHANGED sideVars

\* The response is out; the next request may come.
handler_return ==
    /\ call.pc = "done"
    /\ call' = NoInvocation
    /\ UNCHANGED <<users, userRoles, tokens, now, req, issued, sessions,
                   apiLogs>>
    /\ UNCHANGED otpVars
    /\ UNCHANGED sideVars

NextLog ==
    \/ handler_try
    \/ handler_logSuccess
    \/ handler_catch
    \/ handler_return

SpecLog == Init /\ [][NextLog]_vars

\* ================================================================== claims
\* Requests that have answered with success.
LoginDone(r) ==
    req[r].op = "login" /\ req[r].pc = "done" /\ req[r].status = 200

\* The active rows of a (user, device) pair.
ActiveOfDevice(uid, device) ==
    { i \in 1..Len(tokens) :
        /\ tokens[i].userId = uid
        /\ tokens[i].deviceId = device
        /\ tokens[i].isActive }

\* C1: when two logins of the same user and device have both completed, the
\* pair has exactly one active refresh-token row, and the token string
\* returned to one of the two requests is no longer live.
C1_TwoLoginsOneActiveRow ==
    \A r1, r2 \in Req :
        ( /\ r1 # r2
          /\ LoginDone(r1) /\ LoginDone(r2)
          /\ req[r1].uid = req[r2].uid
          /\ req[r1].device = req[r2].device )
        => /\ Cardinality(ActiveOfDevice(req[r1].uid, req[r1].device)) = 1
           /\ \/ LiveTokenIds(req[r1].refresh) = {}
              \/ LiveTokenIds(req[r2].refresh) = {}

\* C2: at most one refresh-token row per (user, device) is active.
C2_AtMostOneActivePerDevice ==
    \A i, j \in 1..Len(tokens) :
        ( /\ i # j
          /\ tokens[i].isActive /\ tokens[j].isActive
          /\ tokens[i].userId = tokens[j].userId )
        => tokens[i].deviceId # tokens[j].deviceId

\* ------------------------------------------------------------------ signup
\* The rows of a table before and after a step that appends one row to it.
AppendsOne(before, after) ==
    /\ Len(after) = Len(before) + 1
    /\ SubSeq(after, 1, Len(before)) = before

\* Every user has a role assignment and a refresh-token row of its own.
UserComplete ==
    \A u \in Range(users) :
        /\ \E a \in Range(userRoles) : a.userId = u.userId
        /\ \E t \in Range(tokens) : t.userId = u.userId

\* A step of signup request r: either it answers 201 and commits the user, its
\* role assignment and its token row together, or it writes nothing.
SignupStepAtomic(r) ==
    IF req'[r].op = "signup" /\ req'[r].status = 201 /\ req[r].status # 201
    THEN /\ AppendsOne(users, users')
         /\ AppendsOne(userRoles, userRoles')
         /\ AppendsOne(tokens, tokens')
         /\ users'[Len(users')].userId = req[r].uid
         /\ userRoles'[Len(userRoles')].userId = req[r].uid
         /\ tokens'[Len(tokens')].userId = req[r].uid
    ELSE db' = db

\* C3: signup is all-or-nothing.  Every step of a signup request that does not
\* answer 201 (validation, OTP, uniqueness check, role lookup, and each of the
\* three creates inside the transaction, failing or not) leaves the three
\* tables as they were; the step that answers 201 adds the user, its role
\* assignment and its refresh-token row together; and no user exists without
\* a role assignment and a refresh-token row.
C3_SignupAllOrNothing ==
    [][ /\ \A r \in Req : req'[r] # req[r] => SignupStepAtomic(r)
        /\ UserComplete' ]_vars

\* C3 witness: a signup that failed inside the transaction after User.create
\* had given it a user id, and no such user is in the table.
C3_Witness_RolledBack ==
    \E r \in Req :
        /\ req[r].op = "signup" /\ req[r].pc = "done" /\ req[r].status = 500
        /\ req[r].uid # NoUid
        /\ \A u \in Range(users) : u.userId # req[r].uid

\* C4: no two users share a mobile number, an email, or a registration number
\* that is set.
C4_UsersUnique ==
    \A i, j \in 1..Len(users) :
        i # j =>
            /\ users[i].mobileNumber # users[j].mobileNumber
            /\ users[i].email # users[j].email
            /\ users[i].reraNumber # NoRera
                 => users[i].reraNumber # users[j].reraNumber

\* C4 witness: a signup that passed the find-existing-user check is inside its
\* transaction while another signup has committed a user with its mobile
\* number.
C4_Witness_PassedCheckBeforeCommit ==
    \E r \in Req :
        /\ req[r].op = "signup"
        /\ req[r].pc \in {"UserCreate", "UserRoleCreate", "TokenCreate"}
        /\ \E u \in Range(users) : u.mobileNumber = req[r].mobile

\* The find-existing-user step of signup request r.
SignupChecks(r) ==
    /\ req[r].op = "signup" /\ req[r].pc = "findExisting"
    /\ req'[r] # req[r]

MobileTaken(r) == \E u \in Range(users) : u.mobileNumber = req[r].mobile

\* No other field of the request decides the message: no user has the email,
\* and every user with the registration number has the mobile number too.
OnlyMobileCollides(r) ==
    \A u \in Range(users) :
        /\ u.email # req[r].email
        /\ (req[r].rera # NoRera /\ u.reraNumber = req[r].rera)
             => u.mobileNumber = req[r].mobile

C6_NoWriteBeforeOtp ==
    [][ \A r \in Req :
          /\ (req[r].op = "idle" /\ req'[r].op \in {"signup", "login"})
               => /\ db' = db
                  /\ req'[r].msg = "Invalid OTP entered"
                       => req'[r].pc = "done" /\ req'[r].status = 400
          /\ (req[r].op \in {"signup", "login"} /\ req[r].pc = "done"
              /\ req'[r] # req[r])
               => db' = db /\ req'[r] = Idle ]_vars

\* C6 witness: a login refused for its OTP while a user is registered.
C6_Witness_OtpRefused ==
    \E r \in Req :
        /\ req[r].op = "login" /\ req[r].pc = "done"
        /\ req[r].msg = "Invalid OTP entered"
        /\ Len(users) > 0

\* ------------------------------------------------------------------ refresh
\* C7: refresh mints an access token only for a bearer string that, when the
\* request is verified, is cryptographically valid and is the string of an
\* active, non-expired row.  Every other string (superseded by a rotation,
\* revoked by logout, expired, forged, missing) is answered 401 with no access
\* token, and a refresh request holds an access token only after it has passed
\* that verification.
C7_RefreshOnlyForLiveToken ==
    [][ \A r \in Req :
          /\ (req[r].op = "idle" /\ req'[r].op = "refresh")
               => IF /\ JwtVerify(req'[r].bearer, now)
                     /\ LiveTokenIds(req'[r].bearer) # {}
                  THEN req'[r].pc = "findUser"
                  ELSE /\ req'[r].pc = "done" /\ req'[r].status = 401
                       /\ req'[r].access = NoAccess
                       /\ sessions' = sessions
          /\ ( /\ req'[r].op = "refresh"
                /\ req'[r].access # NoAccess
                /\ req'[r] # req[r] )
               => req[r].op = "refresh" /\ req[r].pc \in {"findUser", "touch"} ]_vars

\* C7 witness: a refresh answered 401 for a string that was issued and still
\* passes jwt.verify, but that a later login has rotated out of its row.
C7_Witness_SupersededRejected ==
    \E r \in Req :
        /\ req[r].op = "refresh" /\ req[r].pc = "done" /\ req[r].status = 401
        /\ req[r].bearer \in issued
        /\ JwtVerify(req[r].bearer, now)
        /\ \A i \in 1..Len(tokens) : tokens[i].refreshToken # req[r].bearer
        /\ \E i \in 1..Len(tokens) :
              tokens[i].userId = req[r].bearer.sub /\ tokens[i].isActive

\* ------------------------------------------------------------------- logout
\* A token string that a logout has revoked: the string of an inactive row.
Revoked(tok) ==
    \E i \in 1..Len(tokens) :
        tokens[i].refreshToken = tok /\ ~tokens[i].isActive

\* A refresh or a logout that presents a revoked string is refused: the
\* refresh with 401, the logout with the given status.
RevokedRefused(r, logoutStatus) ==
    ( /\ req[r].op = "idle"
      /\ req'[r].op \in {"refresh", "logout"}
      /\ Revoked(req'[r].bearer) )
    => /\ req'[r].pc = "done"
       /\ req'[r].access = NoAccess
       /\ tokens' = tokens /\ sessions' = sessions
       /\ req'[r].op = "refresh" => req'[r].status = 401
       /\ req'[r].op = "logout" => req'[r].status = logoutStatus

ActiveWithString(tok) ==
    { i \in 1..Len(tokens) :
        tokens[i].refreshToken = tok /\ tokens[i].isActive }

\* C9: logout answers 200 only when the bearer string is the string of an
\* active row, and then that row is deactivated and every other row is left
\* as it was; with no bearer, or a string of no active row (unknown or already
\* inactive), logout answers 4xx and no row changes; a logout that does not
\* answer 200 changes no row.
C9_LogoutRevokesOnlyItsRow ==
    [][ \A r \in Req :
          (req[r].op = "idle" /\ req'[r].op = "logout")
          => LET b == req'[r].bearer
                 match == ActiveWithString(b)
             IN  /\ req'[r].pc = "done"
                 /\ req'[r].status = 200
                      => /\ b # NoToken /\ match # {}
                         /\ tokens' = [i \in 1..Len(tokens) |->
                               IF i \in match
                               THEN [tokens[i] EXCEPT !.isActive = FALSE]
                               ELSE tokens[i]]
                 /\ (b = NoToken \/ match = {})
                      => /\ req'[r].status \in 400..499
                         /\ tokens' = tokens
                 /\ req'[r].status # 200 => tokens' = tokens ]_vars

\* C9 witness: a logout answered 200 whose row is inactive while an older row
\* of the same user, active when the logout ran, is still active.
C9_Witness_OtherRowKept ==
    \E r \in Req :
        /\ req[r].op = "logout" /\ req[r].pc = "done" /\ req[r].status = 200
        /\ \E i, j \in 1..Len(tokens) :
              /\ i < j
              /\ tokens[j].refreshToken = req[r].bearer /\ ~tokens[j].isActive
              /\ tokens[i].isActive
              /\ tokens[i].userId = tokens[j].userId

\* ------------------------------------------------------------ usable token
\* C10: when a signup or a login answers with success, the user has at least
\* one active, non-expired refresh-token row, and no more active rows than the
\* one a login keeps.
C10_UsableTokenAfterSuccess ==
    [][ \A r \in Req :
          ( /\ req'[r].op \in {"signup", "login"}
            /\ req'[r].pc = "done" /\ req[r].pc # "done"
            /\ req'[r].status \in {200, 201} )
          => /\ \E i \in 1..Len(tokens') :
                   /\ tokens'[i].userId = req'[r].uid
                   /\ tokens'[i].isActive
                   /\ tokens'[i].expiresAt > now'
             /\ Cardinality({ i \in 1..Len(tokens') :
                   /\ tokens'[i].userId = req'[r].uid
                   /\ tokens'[i].isActive }) <= 1 ]_vars

\* -------------------------------------------------------- inactive for good
\* C11: a refresh-token row that is inactive stays inactive and keeps its
\* token string through every step of login, switch-role, refresh and logout,
\* and after the step that string is live in no row.
C11_InactiveNeverRevalidated ==
    [][ \A i \in 1..Len(tokens) :
          ~tokens[i].isActive
          => /\ i <= Len(tokens')
             /\ ~tokens'[i].isActive
             /\ tokens'[i].refreshToken = tokens[i].refreshToken
             /\ \A j \in 1..Len(tokens') :
                  ~ /\ tokens'[j].refreshToken = tokens[i].refreshToken
                    /\ tokens'[j].isActive
                    /\ tokens'[j].expiresAt > now' ]_vars

\* C11 witness: a row that a logout deactivated is still inactive after a
\* later login or switch-role of the same user wrote a newer, active row, and
\* a refresh with its string has been refused.
C11_Witness_StaysInactive ==
    \E i, j \in 1..Len(tokens) :
        /\ i < j
        /\ ~tokens[i].isActive /\ tokens[j].isActive
        /\ tokens[i].userId = tokens[j].userId
        /\ \E r \in Req :
              /\ req[r].op = "refresh" /\ req[r].pc = "done"
              /\ req[r].status = 401
              /\ req[r].bearer = tokens[i].refreshToken

\* ------------------------------------------------------------ device scope
\* C12: a step of a login from device D leaves every refresh-token row of
\* another device as it was: same token string, device identifier and expiry.
C12_LoginScopedToDevice ==
    [][ \A r \in Req :
          (req[r].op = "login" /\ req'[r] # req[r])
          => \A i \in 1..Len(tokens) :
                tokens[i].deviceId # req[r].device
                => /\ tokens'[i].refreshToken = tokens[i].refreshToken
                   /\ tokens'[i].deviceId = tokens[i].deviceId
                   /\ tokens'[i].expiresAt = tokens[i].expiresAt ]_vars

\* ---------------------------------------------------------------- atomicity
\* C13: when a login or a switch-role fails at one of its writes, none of its
\* token writes remains: the refresh-token string the request minted is stored
\* in no row.
C13_FailedRequestLeavesNoToken ==
    [][ \A r \in Req :
          ( /\ req[r].op \in {"login", "switchRole"}
            /\ req[r].pc # "done"
            /\ req'[r].pc = "done" /\ req'[r].status = 500
            /\ req[r].rt # NoToken )
          => \A i \in 1..Len(tokens') :
                tokens'[i].refreshToken # req[r].rt ]_vars

\* --------------------------------------------------------------- switchRole
\* The user of request r holds the role that the request names.
HoldsRequested(r) ==
    \E i \in 1..Len(RolesOf(req'[r].uid)) :
        RolesOf(req'[r].uid)[i] = req'[r].roleName

\* Request r has been refused without a token written or returned.
RefusedWithoutTokens(r) ==
    /\ req'[r].pc = "done"
    /\ req'[r].access = NoAccess /\ req'[r].refresh = NoToken
    /\ tokens' = tokens /\ issued' = issued /\ sessions' = sessions

\* C14: a switch-role to a client role the caller does not hold is answered
\* 403, and a switch-role to the role of the caller's session is answered 4xx;
\* in both cases no refresh-token row is rotated or created and no token is
\* returned.
C14_SwitchRoleRefusals ==
    [][ \A r \in Req :
          (req[r].op = "idle" /\ req'[r].op = "switchRole")
          => /\ (req'[r].roleName \in validClientRoles /\ ~HoldsRequested(r))
                  => req'[r].status = 403 /\ RefusedWithoutTokens(r)
             /\ (req'[r].roleName # NoRole /\ req'[r].roleName = req'[r].role)
                  => req'[r].status \in 400..499 /\ RefusedWithoutTokens(r) ]_vars

\* C14 witness: one switch-role refused with 403 for a client role not held,
\* another refused with 400 for the role of the session, with the user's
\* token row in place.
C14_Witness_BothRefusals ==
    \E r1, r2 \in Req :
        /\ req[r1].op = "switchRole" /\ req[r1].pc = "done"
        /\ req[r1].status = 403 /\ req[r1].roleName \in validClientRoles
        /\ req[r2].op = "switchRole" /\ req[r2].pc = "done"
        /\ req[r2].status = 400 /\ req[r2].roleName = req[r2].role
        /\ ActiveTokenIds(req[r1].uid) # {}

\* A step in which request r, of use case op, answers with the status.
Answers(r, op, status) ==
    /\ req'[r].op = op /\ req'[r].pc = "done" /\ req'[r].status = status
    /\ req[r].pc # "done"

\* The role named by the switch-role request r that is answering.
SwitchTarget(r) ==
    IF req[r].op = "switchRole" THEN req[r].roleName ELSE req'[r].roleName

\* C15: a switch-role that answers 200 returns an access token and a refresh
\* token that both carry the role requested, and the refresh token is stored
\* in an active row of the user; a refresh presenting a token that is live
\* when it is verified goes on to mint, for a user who holds the token's role,
\* an access token with that role, and its 200 answer carries that token.
C15_SwitchedRoleSurvivesRefresh ==
    [][ \A r \in Req :
          /\ Answers(r, "switchRole", 200)
               => /\ SwitchTarget(r) \in validClientRoles
                  /\ req'[r].access = AccessJwt(req'[r].uid, SwitchTarget(r))
                  /\ req'[r].refresh.role = SwitchTarget(r)
                  /\ req'[r].refresh.sub = req'[r].uid
                  /\ \E i \in 1..Len(tokens') :
                        /\ tokens'[i].refreshToken = req'[r].refresh
                        /\ tokens'[i].userId = req'[r].uid
                        /\ tokens'[i].isActive
                        /\ tokens'[i].expiresAt > now'
          /\ ( /\ req[r].op = "idle" /\ req'[r].op = "refresh"
               /\ LiveTokenIds(req'[r].bearer) # {}
               /\ JwtVerify(req'[r].bearer, now) )
               => req'[r].pc = "findUser"
          /\ ( /\ req[r].op = "refresh" /\ req[r].pc = "findUser"
               /\ req'[r] # req[r]
               /\ refreshExisting(req[r].uid) # {}
               /\ \E i \in 1..Len(RolesOf(req[r].uid)) :
                     RolesOf(req[r].uid)[i] = req[r].bearer.role )
               => /\ req'[r].pc = "touch"
                  /\ req'[r].access =
                        AccessJwt(req[r].bearer.sub, req[r].bearer.role)
          /\ Answers(r, "refresh", 200)
               => /\ req'[r].access = req[r].access
                  /\ req'[r].access \in sessions' ]_vars

\* C15 witness: a switch-role has answered 200 with a refresh token for
\* another role than the session had, and a refresh with that token has
\* answered 200 with an access token for that role.
C15_Witness_RefreshAfterSwitch ==
    \E r1, r2 \in Req :
        /\ req[r1].op = "switchRole" /\ req[r1].pc = "done"
        /\ req[r1].status = 200
        /\ req[r1].refresh.role = "Owner"
        /\ req[r2].op = "refresh" /\ req[r2].pc = "done" /\ req[r2].status = 200
        /\ req[r2].bearer = req[r1].refresh
        /\ req[r2].access = AccessJwt(req[r1].uid, "Owner")

\* C16: no step of a switch-role request, answered with success or refused,
\* changes the role assignments of any user.
C16_SwitchRoleNeverGrants ==
    [][ \A r \in Req :
          ( /\ req'[r] # req[r]
            /\ (req[r].op = "switchRole" \/ req'[r].op = "switchRole") )
          => userRoles' = userRoles ]_vars

\* C16 witness: a switch-role has answered 200 for a user to whom a login had
\* added a second role assignment.
C16_Witness_SwitchAfterGrant ==
    \E r \in Req :
        /\ req[r].op = "switchRole" /\ req[r].pc = "done" /\ req[r].status = 200
        /\ Len(RolesOf(req[r].uid)) = 2
        /\ req[r].refresh.role = RolesOf(req[r].uid)[2]

\* -------------------------------------------------------- login's role
\* The roles login request r found the user to hold contain the role it names.
FoundHolding(rq) == \E i \in 1..Len(rq.roles) : rq.roles[i] = rq.roleName

C18_RefreshLeavesTokens ==
    [][ \A r \in Req :
          ( /\ req'[r] # req[r]
            /\ (req[r].op = "refresh" \/ req'[r].op = "refresh") )
          => /\ Len(tokens') = Len(tokens)
             /\ \A i \in 1..Len(tokens) :
                  \/ tokens'[i] = tokens[i]
                  \/ /\ Answers(r, "refresh", 200)
                     /\ i = req[r].tokenId
                     /\ tokens'[i] = [tokens[i] EXCEPT !.lastUsedAt = now]
             /\ issued' = issued
             /\ req'[r].refresh = NoToken
             /\ Answers(r, "refresh", 200) => req'[r].access # NoAccess ]_vars

\* C18 witness: a refresh has answered 200 and the row of its token, stamped
\* as used, still holds the token with its expiry.
C18_Witness_TouchedOnly ==
    \E r \in Req :
        /\ req[r].op = "refresh" /\ req[r].pc = "done" /\ req[r].status = 200
        /\ \E i \in 1..Len(tokens) :
              /\ tokens[i].refreshToken = req[r].bearer
              /\ tokens[i].isActive
              /\ tokens[i].expiresAt = req[r].bearer.exp
              /\ tokens[i].lastUsedAt # NoTime
              /\ tokens[i].lastUsedAt > tokens[i].expiresAt - RefreshTTL

\* ------------------------------------------------------------ refresh role
\* The user holds the role.
Holds(uid, role) ==
    \E i \in 1..Len(RolesOf(uid)) : RolesOf(uid)[i] = role

\* C19: when a refresh mints its access token, the token's role is the role in
\* the claims of the refresh token if the user holds that role, and the first
\* role the user holds otherwise; it is a role the user holds; and the 200
\* answer carries that access token.
C19_RefreshRoleChoice ==
    [][ \A r \in Req :
          /\ ( /\ req[r].op = "refresh" /\ req[r].pc = "findUser"
               /\ req'[r].pc = "touch" )
               => /\ Len(RolesOf(req[r].uid)) > 0
                  /\ req'[r].access =
                        AccessJwt(req[r].uid,
                                  IF Holds(req[r].uid, req[r].bearer.role)
                                  THEN req[r].bearer.role
                                  ELSE RolesOf(req[r].uid)[1])
                  /\ Holds(req[r].uid, req'[r].access.role)
          /\ Answers(r, "refresh", 200)
               => /\ req[r].pc = "touch"
                  /\ req'[r].access = req[r].access ]_vars

\* C19 witness: two refreshes with tokens for the role Owner have answered
\* 200: one with an access token for Owner, the other, after the role was
\* taken away, with an access token for the role the user still holds.
C19_Witness_PreferredAndFallback ==
    \E r1, r2 \in Req :
        /\ req[r1].op = "refresh" /\ req[r1].pc = "done" /\ req[r1].status = 200
        /\ req[r2].op = "refresh" /\ req[r2].pc = "done" /\ req[r2].status = 200
        /\ req[r1].bearer.role = "Owner" /\ req[r2].bearer.role = "Owner"
        /\ req[r1].access.role = "Owner"
        /\ req[r2].access.role = "Broker"

\* C20: a refresh that looks up a deactivated user is answered 404 and mints
\* no access token, though its token passed verification; and only a refresh
\* that found its user active ever holds an access token.
C20_DeactivatedUserRefused ==
    [][ \A r \in Req :
          /\ ( /\ req[r].op = "refresh" /\ req[r].pc = "findUser"
               /\ req'[r] # req[r]
               /\ \A u \in Range(users) :
                     u.userId = req[r].uid => ~u.isActive )
               => /\ req'[r].pc = "done" /\ req'[r].status = 404
                  /\ req'[r].access = NoAccess
                  /\ sessions' = sessions
          /\ ( /\ req[r].op = "refresh" /\ req'[r].op = "refresh"
               /\ req[r].access = NoAccess /\ req'[r].access # NoAccess )
               => \E u \in Range(users) :
                     u.userId = req[r].uid /\ u.isActive ]_vars

\* C20 witness: a refresh has been answered 404 for a user who is deactivated
\* while the token presented is still live.
C20_Witness_LiveTokenRefused ==
    \E r \in Req :
        /\ req[r].op = "refresh" /\ req[r].pc = "done" /\ req[r].status = 404
        /\ LiveTokenIds(req[r].bearer) # {}
        /\ JwtVerify(req[r].bearer, now)
        /\ \E u \in Range(users) :
              u.userId = req[r].bearer.sub /\ ~u.isActive

\* The login request r is at its account lookup and takes that step.
LoginLooksUp(r) ==
    /\ req[r].op = "login" /\ req[r].pc = "findUser"
    /\ req'[r] # req[r]

\* C21: a login whose OTP is verified and whose mobile number belongs to no
\* active user is answered 404 "Account does not exist, please sign up first"
\* without tokens, and its lookup step changes no table and hands out nothing.
C21_UnknownAccountNotFound ==
    [][ \A r \in Req :
          ( /\ LoginLooksUp(r)
            /\ isValidPhone(req[r].mobile)
            /\ ~ \E u \in Range(users) :
                    u.mobileNumber = req[r].mobile /\ u.isActive )
            => /\ req'[r].pc = "done" /\ req'[r].status = 404
               /\ req'[r].msg = "Account does not exist, please sign up first"
               /\ req'[r].access = NoAccess /\ req'[r].refresh = NoToken
               /\ db' = db
               /\ issued' = issued /\ sessions' = sessions ]_vars

\* C21 witness: a login has been answered 404 for the mobile number of an
\* account that exists and is deactivated, with its token row still stored.
C21_Witness_DeactivatedNotFound ==
    \E r \in Req :
        /\ req[r].op = "login" /\ req[r].pc = "done" /\ req[r].status = 404
        /\ \E u \in Range(users) :
              /\ u.mobileNumber = req[r].mobile /\ ~u.isActive
              /\ \E i \in 1..Len(tokens) : tokens[i].userId = u.userId
        /\ ~ \E u \in Range(users) :
                u.mobileNumber = req[r].mobile /\ u.isActive

\* C22: a login whose OTP is verified, for an active user who holds no active
\* role, is answered 403 and not 404, without tokens.
C22_NoRoleForbidden ==
    [][ \A r \in Req :
          ( /\ LoginLooksUp(r)
            /\ \E u \in Range(users) :
                  /\ u.mobileNumber = req[r].mobile /\ u.isActive
                  /\ Len(RolesOf(u.userId)) = 0 )
            => /\ req'[r].pc = "done" /\ req'[r].status = 403
               /\ req'[r].access = NoAccess /\ req'[r].refresh = NoToken ]_vars

\* C23: a signup that names no role and answers 201 was resolved to the role
\* "Broker"; its answer carries an access token and a refresh token, two
\* different strings, both bound to the new user's id and to "Broker"; and
\* the new user's only role assignment is "Broker".
C23_DefaultRoleBroker ==
    [][ \A r \in Req :
          ( Answers(r, "signup", 201) /\ req[r].roleName = NoRole )
            => /\ req[r].role = "Broker"
               /\ req'[r].uid = req[r].uid /\ req[r].uid # NoUid
               /\ req'[r].access # NoAccess /\ req'[r].refresh # NoToken
               /\ req'[r].access # req'[r].refresh
               /\ req'[r].access = AccessJwt(req[r].uid, "Broker")
               /\ req'[r].refresh.sub = req[r].uid
               /\ req'[r].refresh.role = "Broker"
               /\ req'[r].refresh.cls = "refresh"
               /\ \E u \in Range(users') : u.userId = req[r].uid
               /\ ~ \E u \in Range(users) : u.userId = req[r].uid
               /\ { userRoles'[i].roleName :
                      i \in { j \in 1..Len(userRoles') :
                                userRoles'[j].userId = req[r].uid } }
                    = {"Broker"}
               /\ Cardinality({ j \in 1..Len(userRoles') :
                                  userRoles'[j].userId = req[r].uid }) = 1 ]_vars

\* C23 witness: a signup has answered 201 with both tokens carrying "Broker"
\* for a user who is stored with that one assignment.
C23_Witness_BrokerSignedUp ==
    \E r \in Req :
        /\ req[r].op = "signup" /\ req[r].pc = "done" /\ req[r].status = 201
        /\ req[r].access.role = "Broker" /\ req[r].refresh.role = "Broker"
        /\ \E u \in Range(users) : u.userId = req[r].uid
        /\ RolesOf(req[r].uid) = <<"Broker">>

\* C24: a signup that names a role which is not an active client role is never
\* carried on: its lookup step answers without writing anything, with 400 when
\* no existing user collides with it, and no signup ever goes on to its writes
\* with a role other than the one it named, "Broker" standing for no name.
C24_UnknownRoleRejected ==
    [][ \A r \in Req :
          /\ ( /\ req[r].op = "signup" /\ req[r].pc = "findExisting"
               /\ req'[r] # req[r]
               /\ req[r].roleName # NoRole
               /\ RoleFindOne(req[r].roleName) = {} )
               => /\ req'[r].pc = "done"
                  /\ req'[r].status \in {400, 409}
                  /\ signupExisting(req[r]) = {} => req'[r].status = 400
                  /\ req'[r].access = NoAccess /\ req'[r].refresh = NoToken
                  /\ db' = db
                  /\ issued' = issued /\ sessions' = sessions
          /\ ( req'[r].op = "signup"
               /\ req'[r].pc \in {"UserCreate", "UserRoleCreate", "TokenCreate"} )
               => /\ RoleFindOne(req'[r].role) # {}
                  /\ req'[r].role =
                       IF req'[r].roleName # NoRole THEN req'[r].roleName
                       ELSE "Broker" ]_vars

\* C24 witness: a signup has been answered 400 "Invalid role" and no user has
\* its mobile number, while another signup is stored.
C24_Witness_InvalidRole ==
    \E r \in Req :
        /\ req[r].op = "signup" /\ req[r].pc = "done" /\ req[r].status = 400
        /\ req[r].msg = "Invalid role"
        /\ isValidPhone(req[r].mobile)
        /\ ~ \E u \in Range(users) : u.mobileNumber = req[r].mobile
        /\ Len(users) > 0

\* C25: a signup that collides with existing users is answered with the
\* message of the first colliding field in the order email, mobile number,
\* registration number, whichever users hold them: "Email already exists" when
\* any user has the submitted email, else "Mobile number already exists" when
\* any user has the submitted mobile number, else "Rera number already exists".
C25_ConflictPriority ==
    [][ \A r \in Req :
          ( /\ req[r].op = "signup" /\ req[r].pc = "findExisting"
            /\ req'[r] # req[r]
            /\ signupExisting(req[r]) # {} )
            => /\ req'[r].pc = "done" /\ req'[r].status = 409
               /\ req'[r].msg =
                    IF \E u \in Range(users) : u.email = req[r].email
                    THEN "Email already exists"
                    ELSE IF \E u \in Range(users) :
                              u.mobileNumber = req[r].mobile
                    THEN "Mobile number already exists"
                    ELSE "Rera number already exists" ]_vars

\* A step in which the gateway serves a call of fn.
GatewayServes(fn) == otpCall.fn = "none" /\ otpCall'.fn = fn

\* C26: verifyOtp returns "verified" only when the provider was asked and
\* answered with responseCode 200 and verificationStatus
\* "VERIFICATION_COMPLETED"; on every other answer, with either field missing
\* or different, it throws an error.
C26_VerifyFailClosed ==
    [][ GatewayServes("verifyOtp")
          => /\ otpCall'.status = 0
                  <=> /\ otpCall'.providerCalled
                      /\ otpCall'.responseCode = 200
                      /\ otpCall'.verificationStatus = "VERIFICATION_COMPLETED"
             /\ otpCall'.status # 0 => otpCall'.status >= 400 ]_vars

\* C26 witness: the provider answered 200 without the completed status and
\* verifyOtp threw.
C26_Witness_CodeWithoutStatus ==
    /\ otpCall.fn = "verifyOtp" /\ otpCall.providerCalled
    /\ otpCall.responseCode = 200
    /\ otpCall.verificationStatus # "VERIFICATION_COMPLETED"
    /\ otpCall.status = 400

\* C27: verifyOtp throws InvalidOtp for responseCode 702, OtpExpired for 705,
\* RateLimited (429) for 800, and for every other answer that is not a
\* success an upstream error, of the 500 class and not a 400.
C27_VerifyOutcomeMapping ==
    [][ ( GatewayServes("verifyOtp") /\ otpCall'.providerCalled )
          => /\ otpCall'.responseCode = 702
                  => /\ otpCall'.status = 400
                     /\ otpCall'.msg = "Invalid OTP entered"
             /\ otpCall'.responseCode = 705
                  => /\ otpCall'.status = 400
                     /\ otpCall'.msg = "OTP has expired. Please request a new one."
             /\ otpCall'.responseCode = 800 => otpCall'.status = 429
             /\ ( /\ otpCall'.responseCode \notin {702, 705, 800}
                  /\ otpCall'.status # 0 )
                  => otpCall'.status >= 500 ]_vars

\* C28: whenever the provider answers a sendOtp or a verifyOtp call with HTTP
\* 401, the call leaves the cached credential cleared.
C28_UnauthorizedClearsCache ==
    [][ ( /\ otpCall.fn = "none" /\ otpCall'.fn \in {"sendOtp", "verifyOtp"}
          /\ otpCall'.providerCalled /\ otpCall'.http = 401 )
          => /\ cachedToken' = NoCredential
             /\ tokenExpiresAt' = NoTime ]_vars

\* A credential is cached and now is more than the margin before its expiry.
Fresh ==
    /\ cachedToken # NoCredential /\ tokenExpiresAt # NoTime
    /\ now + CacheMargin < tokenExpiresAt

\* C29: getAuthToken hands out the cached credential without asking the
\* provider exactly when a credential is cached and now is more than five
\* minutes before its expiry; otherwise it asks the provider (or throws at
\* once when no credentials are configured).  A failed authenticate throws
\* and leaves the cache as it was; the cache gets a new credential only from
\* a successful authenticate, for twenty minutes, and is otherwise only
\* cleared by a 401.
C29_CacheUsedWhileFresh ==
    [][ /\ ( otpCall.fn = "none" /\ otpCall'.reached )
             => /\ Fresh <=> /\ ~otpCall'.authCalled
                             /\ otpCall'.token # NoCredential
                             /\ otpCall'.token = cachedToken
                /\ ( ~Fresh /\ configured ) => otpCall'.authCalled
                /\ ( ~Fresh /\ ~configured )
                     => ~otpCall'.authCalled /\ otpCall'.status = 500
                /\ ( otpCall'.authCalled /\ ~otpCall'.authOk )
                     => /\ otpCall'.status = 500
                        /\ ~otpCall'.providerCalled
                        /\ cachedToken' = cachedToken
                        /\ tokenExpiresAt' = tokenExpiresAt
                /\ ( otpCall'.authCalled /\ otpCall'.authOk )
                     => /\ otpCall'.token \in ProviderTokens
                        /\ otpCall'.providerCalled
        /\ ( cachedToken' # cachedToken \/ tokenExpiresAt' # tokenExpiresAt )
             => /\ otpCall.fn = "none" /\ otpCall'.reached
                /\ \/ /\ otpCall'.authCalled /\ otpCall'.authOk
                      /\ cachedToken' = otpCall'.token
                      /\ tokenExpiresAt' = now + CacheLifetime
                   \/ /\ otpCall'.http = 401
                      /\ cachedToken' = NoCredential
                      /\ tokenExpiresAt' = NoTime ]_vars

\* C29 witness: a call was served from the cache at the last instant at which
\* the cached credential is still more than the margin before its expiry.
C29_Witness_LastCachedUse ==
    /\ otpCall.reached /\ ~otpCall.authCalled
    /\ otpCall.token # NoCredential /\ otpCall.token = cachedToken
    /\ now + CacheMargin + 1 = tokenExpiresAt
    /\ now > 0

\* C30: POST /send-otp without a mobile number is refused with 400 and the
\* provider is not asked; when the provider's answer is not a success or
\* lacks the verification id, sendOtp throws an upstream error of the 500
\* class.
C30_SendOtpFailures ==
    [][ GatewayServes("sendOtp")
          => /\ otpCall'.mobile = NoMobile
                  => /\ otpCall'.status = 400
                     /\ ~otpCall'.authCalled /\ ~otpCall'.providerCalled
             /\ ( /\ otpCall'.providerCalled
                  /\ \/ otpCall'.responseCode # 200
                     \/ otpCall'.verificationId = NoVerificationId )
                  => otpCall'.status >= 500 ]_vars

\* The noteIds of a notes array, in order.
NoteIdsOf(notes) == [i \in 1..Len(notes) |-> notes[i].noteId]

\* C37: totalNotesCount always equals the length of notes; addNote appends
\* one note at the end and raises the count by one; updateNote leaves the
\* count, the order and every noteId as they were, and returns null and
\* leaves notes unchanged when no note has the noteId.
C37_NotesCountMatches ==
    /\ [](noteRecord.totalNotesCount = Len(noteRecord.notes))
    /\ [][ /\ noteResult'.fn = "addNote" /\ noteRecord' # noteRecord
              => /\ Len(noteRecord'.notes) = Len(noteRecord.notes) + 1
                 /\ noteRecord'.totalNotesCount =
                       noteRecord.totalNotesCount + 1
                 /\ SubSeq(noteRecord'.notes, 1, Len(noteRecord.notes))
                       = noteRecord.notes
                 /\ noteRecord'.notes[Len(noteRecord'.notes)] = noteResult'.ret
           /\ ( noteResult'.fn = "updateNote"
                /\ <<noteRecord, noteResult>>' # <<noteRecord, noteResult>> )
              => /\ noteRecord'.totalNotesCount = noteRecord.totalNotesCount
                 /\ NoteIdsOf(noteRecord'.notes) = NoteIdsOf(noteRecord.notes)
                 /\ findIndex(noteRecord.notes, noteResult'.noteId) = -1
                       => /\ noteResult'.ret = NoNote
                          /\ noteRecord'.notes = noteRecord.notes
                 /\ findIndex(noteRecord.notes, noteResult'.noteId) # -1
                       => noteResult'.ret.noteId = noteResult'.noteId ]_vars

\* C37 witness: an updateNote for a noteId that is not there returned null on
\* a record that holds two notes, the first of them updated before.
C37_Witness_MissAfterUpdate ==
    /\ noteResult.fn = "updateNote" /\ noteResult.ret = NoNote
    /\ Len(noteRecord.notes) = 2
    /\ noteRecord.notes[1].updatedAt # NoTime
    /\ noteRecord.totalNotesCount = 2

\* The close calls of the shutdown callback in the order they are made.
ShutdownOrder ==
    /\ proc.sql # "open" => proc.server = "closed"
    /\ proc.mongo # "open" => proc.sql = "closed"

C31_LoggedOncePerCall ==
    call.pc = "done" =>
        /\ call.logCalls = 1
        /\ call.logStatus = call.status
        /\ call.sent = IF call.body.threw THEN "next" ELSE "response"

\* C31 witness: a signup that threw 409 has answered 409 after one log call
\* whose document was written with status 409.
C31_Witness_ConflictLogged ==
    /\ call.pc = "done" /\ call.op = "signup"
    /\ call.status = 409 /\ call.logCalls = 1
    /\ Len(apiLogs) = 1 /\ apiLogs[1].responseStatus = 409

\* C32: the answer depends on how the try block ended and never on the
\* outcome of the log write: a body that returned is answered with the
\* success status, a body that threw with error.statusCode || 500; and the
\* log step writes nothing but the log.
C32_LogFailureChangesNothing ==
    /\ [](call.pc = "done" =>
            /\ call.status = IF call.body.threw THEN errorStatus(call.body)
                             ELSE SuccessStatus(call.op)
            /\ call.sent = IF call.body.threw THEN "next" ELSE "response")
    /\ [][call'.logCalls # call.logCalls => UNCHANGED db]_vars

\* C32 witness: a signup answered 201 although the write of its log failed.
C32_Witness_SuccessWithoutLog ==
    /\ call.pc = "done" /\ call.op = "signup"
    /\ call.status = 201 /\ call.sent = "response"
    /\ call.logCalls = 1 /\ ~call.logWritten /\ apiLogs = <<>>

\* The values of a log document that come from the request.
LoggedValues(doc) ==
    { doc.requestBody[f] : f \in DOMAIN doc.requestBody }
        \cup { doc.requestHeaders[h] : h \in DOMAIN doc.requestHeaders }

\* The secrets of a request: its OTP code, its Authorization header and the
\* bearer token in it.
SecretsOf(rq) ==
    {rq.otp, rq.authorization, bearerOf(rq.authorization), rq.cookie}
        \ {Absent, Null}

\* C33: a log document never holds the submitted OTP code or bearer token,
\* only the placeholder; on success the mobile number and email it holds
\* are the success marker, on failure they are the submitted values.
C33_LogsAreRedacted ==
    [][ apiLogs' # apiLogs =>
          LET doc == apiLogs'[Len(apiLogs')]
              rq  == call.rq
          IN  /\ LoggedValues(doc) \cap SecretsOf(rq) = {}
              /\ rq.otp # Absent => doc.requestBody.otp \in {Redacted, Absent}
              /\ rq.authorization # Absent =>
                    doc.requestHeaders.authorization = Redacted
              /\ doc.responseStatus < 400 =>
                    /\ doc.requestBody.mobileNumber
                          = IF rq.mobileNumber # Absent
                            THEN SuccessMarker ELSE Absent
                    /\ doc.requestBody.email
                          = IF rq.email # Absent
                            THEN SuccessMarker ELSE Absent
              /\ doc.responseStatus >= 400 =>
                    /\ doc.requestBody.mobileNumber = rq.mobileNumber
                    /\ doc.requestBody.email = rq.email ]_vars

\* C33 witness: the log document of a successful signup holds the markers
\* in place of the OTP code, the mobile number and the email.
C33_Witness_SignupSuccessLogged ==
    /\ call.pc = "done" /\ call.op = "signup" /\ call.status = 201
    /\ call.rq.otp = SubmittedOtp
    /\ Len(apiLogs) = 1
    /\ apiLogs[1].requestBody.otp = Redacted
    /\ apiLogs[1].requestBody.mobileNumber = SuccessMarker
    /\ apiLogs[1].requestBody.email = SuccessMarker

\* C34: the roles a successful login returns are exactly the active roles
\* its user holds, for every user type and every supplied role name: none
\* of them is a role the user has no assignment for.
C34_ReturnedRolesAreHeld ==
    \A r \in Req :
        ( req[r].op = "login" /\ req[r].pc = "done" /\ req[r].status = 200 )
        => Range(req[r].roles) = Range(RolesOf(req[r].uid))

\* C35: the role grant of login is idempotent: whatever the number of
\* logins of one user that supply the same role not yet held, one after the
\* other or at the same time, the user ends with one assignment for that
\* role.
C35_GrantIsIdempotent ==
    \A i, j \in 1..Len(userRoles) :
        ( /\ userRoles[i].userId = userRoles[j].userId
          /\ userRoles[i].roleName = userRoles[j].roleName ) => i = j

\* The tokens a step mints: those it hands out, writes to a row or keeps
\* for the statement that follows.
MintedBy(rts, ats, rows, rqs) ==
    ( rts \cup ats \cup { row.refreshToken : row \in Range(rows) }
          \cup { rqs[r].rt : r \in Req } \cup { rqs[r].refresh : r \in Req }
          \cup { rqs[r].access : r \in Req } )
        \ {NoToken, NoAccess}

\* C36: signup, login, refresh and switchRole mint no token, refresh or
\* access, for a role its subject does not hold when the token is issued.
C36_MintedRoleIsHeld ==
    [][ \A t \in MintedBy(issued', sessions', tokens', req')
                    \ MintedBy(issued, sessions, tokens, req) :
            t.role \in Range(RolesOf(t.sub))' ]_vars

\* C36 witness: user 1 holds Broker and Owner and has been given an access
\* token for each of them, the one for Owner after a login that granted it.
C36_Witness_TokensForBothRoles ==
    /\ Range(RolesOf(1)) = {"Broker", "Owner"}
    /\ \E a, b \in sessions :
         /\ a.sub = 1 /\ a.role = "Broker"
         /\ b.sub = 1 /\ b.role = "Owner"
    /\ \E t \in issued : t.sub = 1 /\ t.role = "Owner"

====
